---------------------------- MODULE Spec2Model ----------------------------
(***************************************************************************)
(* A model of the tile cache (src/src/cache.rs) and of the tile producer   *)
(* and viewport assembler (src/src/compute.rs) of the CAE cellular         *)
(* automaton viewer.                                                       *)
(*                                                                         *)
(* Four specifications share the variables:                                *)
(*   Spec          the TileCache API driven by arbitrary get/insert/clear  *)
(*   SpecKey       TileKey::new applied to pairs of tile coordinates       *)
(*   SpecProducer  compute_tile applied to bounded tile coordinates        *)
(*   SpecTile      recomputation passes: run_ca_with_cache on bounded      *)
(*                 viewports, compared with run_ca                         *)
(***************************************************************************)
EXTENDS Integers, Sequences, FiniteSets, TLC

(***************************************************************************)
(* Bounds of the model.                                                    *)
(***************************************************************************)
\* number of distinct keys offered to the cache API
NKeys == 4
\* number of distinct tile values offered to insert
NTiles == 2
\* largest capacity a cache is constructed with (0 is included)
MaxCap == 2
\* largest number of get calls between two clears
MaxGets == 2
\* tile size T (64..1024 in the program, scaled down)
TileSize == 2
\* tiles are produced for tile_x in -MaxTileX..MaxTileX and tile_y in 0..MaxTileY
MaxTileX == 2
MaxTileY == 1
\* viewports: horizontal_offset in -MaxOffset..MaxOffset, visible_width in
\* 1..MaxWidth, start_generation in 0..MaxStart, iterations in 1..MaxIter
MaxOffset == 2
MaxWidth == 2
MaxStart == 2
MaxIter == 2
\* largest cache capacity of an application that caches (cache_tiles > 0)
MaxTileCap == 4
\* number of recomputation passes of a behaviour
MaxPasses == 2
\* i32::MAX, scaled down: an i32 ranges over -(MaxI32 + 1)..MaxI32
MaxI32 == 15
\* largest debounce_ms of an application, in clock ticks
MaxDebounce == 2
\* last instant of the clock
MaxTime == 3
\* number of input events of a behaviour
MaxInputs == 3

(***************************************************************************)
(* Program constants.                                                      *)
(***************************************************************************)
DEFAULT_RULE == 30
DEFAULT_CELL_SIZE == 10
DEFAULT_WIDTH == 1280
DEFAULT_CACHE_TILES == 64
DEFAULT_HEIGHT == 960
MAX_CELLS_X == 5000
MAX_CELLS_Y == 5000
MIN_CELL_SIZE == 2
MAX_TOTAL_CELLS == 10000000

\* Option<T>: None is the empty sequence, Some(x) the one-element sequence
None == <<>>
Some(x) == <<x>>
is_none(o) == o = <<>>
unwrap(o) == o[1]

VARIABLES
    cache,      \* the TileCache: max_tiles, tile_size, tiles, lru_queue, hits, misses
    touches,    \* history: the keys touched since the last clear, most recent first, each once
    gets,       \* history: number of get calls since construction or the last clear
    hist,       \* history: the calls so far while they follow the LRU test script
    built,      \* SpecKey: the two keys built last, each with its arguments
    produced,   \* SpecProducer: the tile produced last, with its arguments
    config,     \* SpecTile: rule and initial_state of the running application; SpecConfig: the Config and the progress of main
    call,       \* SpecTile: the last run_ca / run_ca_with_cache call and its result
    passes,     \* SpecTile: number of calls made so far
    plan,       \* SpecPlan: the viewport planned last, with its tile ranges
    app,        \* SpecApp: the RenderApp's debounce, viewport and bound-buffer state
    sizes,      \* SpecSizes: the viewport of a pass with the u32 sizes computed for it
    view,       \* SpecView: the viewport, pointer and touch state of the RenderApp, in pixels and cell fractions
    web         \* SpecReset: the statics of web.rs and the position of the redraw handler

vars == <<cache, touches, gets, hist, built, produced, config, call, passes, plan, app, sizes, view, web>>

\* the variables the TileCache API specification leaves alone
nonApiVars == <<built, produced, config, call, passes, plan, app, sizes, view, web>>

(***************************************************************************)
(* Sequence helpers (VecDeque operations).                                 *)
(***************************************************************************)
\* VecDeque::retain(|k| k != key)
retain_ne(q, key) == SelectSeq(q, LAMBDA k : k # key)

\* VecDeque::push_front
push_front(q, key) == <<key>> \o q

\* the elements of a sequence
Range(q) == {q[i] : i \in 1..Len(q)}

\* a sequence without repeated elements
NoDup(q) == \A i, j \in 1..Len(q) : i # j => q[i] # q[j]

(***************************************************************************)
(* TileKey (cache.rs).  The digest of the initial state is a 64-bit        *)
(* DefaultHasher value; the model gives every initial state it uses its    *)
(* own digest (no collision among them) and keeps the digest, not the      *)
(* string, in the key.                                                     *)
(***************************************************************************)
\* the initial states of the model: absent, or a string of characters
InitialStates ==
    {None, Some(<<>>), Some(<<"1">>), Some(<<"1", "0", "1">>), Some(<<"0", "1", "1">>)}

\* TileKey::hash_initial_state
hash_initial_state(initial_state) ==
    CASE initial_state = None -> 11
      [] initial_state = Some(<<>>) -> 12
      [] initial_state = Some(<<"1">>) -> 13
      [] initial_state = Some(<<"1", "0", "1">>) -> 14
      [] initial_state = Some(<<"0", "1", "1">>) -> 15

\* TileKey::new: the horizontal range is accepted and ignored
TileKey_new(rule, initial_state, generation_start, generation_end, horizontal_start, horizontal_end) ==
    [rule |-> rule,
     initial_state_hash |-> hash_initial_state(initial_state),
     generation_start |-> generation_start,
     generation_end |-> generation_end]

\* The key of the tile at grid position (tile_x, tile_y).  run_ca_with_cache
\* calls TileKey::new(rule, &initial_state, tile_x, tile_y); TileKey::new of
\* cache.rs takes the generation range and the horizontal range of the tile,
\* which for this tile are [tile_y*T, tile_y*T + T) and [tile_x*T, tile_x*T + T)
\* (the ranges compute_tile derives from tile_x and tile_y).
tile_key(rule, initial_state, tile_x, tile_y, tile_size) ==
    TileKey_new(rule, initial_state,
                tile_y * tile_size, tile_y * tile_size + tile_size,
                tile_x * tile_size, tile_x * tile_size + tile_size)

(***************************************************************************)
(* TileCache (cache.rs).  tiles is a function whose domain is the set of   *)
(* resident keys; lru_queue has its front at index 1.                      *)
(***************************************************************************)
\* HashMap::new
EmptyMap == [k \in {} |-> 0]

TileCache_new(max_tiles, tile_size) ==
    [max_tiles |-> max_tiles, tile_size |-> tile_size,
     tiles |-> EmptyMap, lru_queue |-> <<>>, hits |-> 0, misses |-> 0]

\* HashMap::remove
map_remove(t, key) == [k \in DOMAIN t \ {key} |-> t[k]]

\* HashMap::insert
map_insert(t, key, tile) ==
    [k \in DOMAIN t \cup {key} |-> IF k = key THEN tile ELSE t[k]]

\* touch with the key put at the back of the queue
touch_back(c, key) ==
    [c EXCEPT !.lru_queue = Append(retain_ne(c.lru_queue, key), key)]

\* TileCache::touch
touch(c, key) ==
    [c EXCEPT !.lru_queue = push_front(retain_ne(c.lru_queue, key), key)]

\* get with a miss left uncounted
get_miss_uncounted(c, key) ==
    IF key \in DOMAIN c.tiles
    THEN [cache  |-> [touch(c, key) EXCEPT !.hits = c.hits + 1],
          result |-> Some(c.tiles[key])]
    ELSE [cache  |-> c, result |-> None]

\* get with a hit that drops the least recent entry
get_hit_drops_back(c, key) ==
    IF key \in DOMAIN c.tiles
    THEN LET t == touch(c, key)
             back == t.lru_queue[Len(t.lru_queue)]
         IN  [cache  |-> [t EXCEPT !.hits = c.hits + 1,
                                   !.lru_queue = IF back = key THEN @ ELSE SubSeq(@, 1, Len(@) - 1),
                                   !.tiles = IF back = key THEN @ ELSE [k \in DOMAIN @ \ {back} |-> @[k]]],
              result |-> Some(c.tiles[key])]
    ELSE [cache  |-> [c EXCEPT !.misses = c.misses + 1],
          result |-> None]

\* TileCache::get: the cache after the call and the Option returned
get(c, key) ==
    IF key \in DOMAIN c.tiles
    THEN [cache  |-> [touch(c, key) EXCEPT !.hits = c.hits + 1],
          result |-> Some(c.tiles[key])]
    ELSE [cache  |-> [c EXCEPT !.misses = c.misses + 1],
          result |-> None]

\* the eviction loop popping the front (the most recent key) instead
RECURSIVE evict_front(_)
evict_front(c) ==
    IF Cardinality(DOMAIN c.tiles) >= c.max_tiles /\ c.lru_queue # <<>>
    THEN LET evict_key == c.lru_queue[1]
         IN  evict_front([c EXCEPT !.lru_queue = SubSeq(c.lru_queue, 2, Len(c.lru_queue)),
                                   !.tiles = map_remove(c.tiles, evict_key)])
    ELSE c

\* the eviction loop of TileCache::insert
RECURSIVE evict(_)
evict(c) ==
    IF Cardinality(DOMAIN c.tiles) >= c.max_tiles /\ c.lru_queue # <<>>
    THEN LET evict_key == c.lru_queue[Len(c.lru_queue)]
         IN  evict([c EXCEPT !.lru_queue = SubSeq(c.lru_queue, 1, Len(c.lru_queue) - 1),
                             !.tiles = map_remove(c.tiles, evict_key)])
    ELSE c

\* insert that leaves the previous queue entry of a resident key in place
insert_keep_stale(c, key, tile) ==
    LET c2 == evict(c)
    IN  [c2 EXCEPT !.tiles = map_insert(c2.tiles, key, tile),
                   !.lru_queue = push_front(c2.lru_queue, key)]

\* TileCache::insert
insert(c, key, tile) ==
    LET c1 == IF key \in DOMAIN c.tiles
              THEN [c EXCEPT !.lru_queue = retain_ne(c.lru_queue, key)]
              ELSE c
        c2 == evict(c1)
    IN  [c2 EXCEPT !.tiles = map_insert(c2.tiles, key, tile),
                   !.lru_queue = push_front(c2.lru_queue, key)]

\* TileCache::clear
clear(c) ==
    [c EXCEPT !.tiles = EmptyMap, !.lru_queue = <<>>, !.hits = 0, !.misses = 0]

(***************************************************************************)
(* Device buffers are sequences of 32-bit words: word w of a buffer is     *)
(* element w + 1.  A buffer of shape (rows, width) is laid out row-major.  *)
(***************************************************************************)
\* a buffer with its words evaluated: TLC applies a function expression
\* without keeping the values, so every buffer is evaluated once when built
Stored(buffer) == IF buffer = buffer THEN buffer ELSE buffer

\* vec![0u32; n], and a device buffer as created (zero-initialised)
zeroed(n) == [i \in 1..n |-> 0]

\* copy_buffer_to_buffer with offsets and size in words
copy_buffer_to_buffer(src, src_offset, dst, dst_offset, size) ==
    Stored([i \in 1..Len(dst) |->
        IF i - 1 >= dst_offset /\ i - 1 < dst_offset + size
        THEN src[(i - 1 - dst_offset) + src_offset + 1]
        ELSE dst[i]])

\* the word at (row, column) of a row-major buffer of the given width
word_at(buffer, width, row, column) == buffer[row * width + column + 1]

(***************************************************************************)
(* Rule evaluator and compute kernel (shaders/ca_compute.wgsl).            *)
(***************************************************************************)
\* bit (l*4 + c*2 + rt) of the rule
next_cell(rule, l, c, rt) == (rule \div (2 ^ (l * 4 + c * 2 + rt))) % 2

\* one dispatch: row current_row + 1 from row current_row, out-of-range
\* neighbours read as 0
dispatch(data, width, height, rule, current_row) ==
    Stored([i \in 1..Len(data) |->
        IF (i - 1) \div width = current_row + 1
        THEN LET x == (i - 1) % width
                 l == IF x = 0 THEN 0 ELSE word_at(data, width, current_row, x - 1)
                 c == word_at(data, width, current_row, x)
                 rt == IF x = width - 1 THEN 0 ELSE word_at(data, width, current_row, x + 1)
             IN  next_cell(rule, l, c, rt)
        ELSE data[i]])

(***************************************************************************)
(* compute_tile and run_ca (compute.rs).                                   *)
(***************************************************************************)
\* if ch == '1' { 1 } else { 0 }
cell_of_char(ch) == IF ch = "1" THEN 1 ELSE 0

\* the first row (generation 0): the buffer column of world cell 0 is base_offset
initial_row(initial_state, simulated_width, base_offset) ==
    [i \in 1..simulated_width |->
        LET pos == i - 1
        IN  IF is_none(initial_state)
            THEN IF pos = base_offset THEN 1 ELSE 0
            ELSE LET state_str == unwrap(initial_state)
                     n == pos - base_offset
                 IN  IF n >= 0 /\ n < Len(state_str) THEN cell_of_char(state_str[n + 1]) ELSE 0]

\* all_data: the first row followed by zeroed rows
initial_data(row, simulated_width, buffer_height) ==
    Stored([i \in 1..(simulated_width * buffer_height) |-> IF i <= simulated_width THEN row[i] ELSE 0])

\* the Params of the dispatches of a loop that also runs iter = total
dispatch_params_inclusive(width, height, rule, from, total) ==
    [k \in 1..(total - from + 1) |->
        [width |-> width, height |-> height, rule |-> rule, current_row |-> from + k - 1]]

\* for iter in from..total: the Params of the dispatches, in the order they
\* are encoded
dispatch_params(width, height, rule, from, total) ==
    [k \in 1..(total - from) |->
        [width |-> width, height |-> height, rule |-> rule, current_row |-> from + k - 1]]

\* the dispatches from the k-th on, run in order
RECURSIVE run_dispatches(_, _, _)
run_dispatches(data, params, k) ==
    IF k > Len(params) THEN data
    ELSE run_dispatches(dispatch(data, params[k].width, params[k].height, params[k].rule,
                                 params[k].current_row),
                        params, k + 1)

\* for iter in from..total: dispatch with current_row = iter
dispatch_all(data, width, height, rule, from, total) ==
    run_dispatches(data, dispatch_params(width, height, rule, from, total), 1)

\* the padding of a tile one tile high only
tile_padding_one_tile(tile_y, tile_size) == tile_size

\* the padding of a tile: generation_end.max(0)
tile_padding(tile_y, tile_size) ==
    LET generation_end == tile_y * tile_size + tile_size
    IN  IF generation_end > 0 THEN generation_end ELSE 0

max0(x) == IF x > 0 THEN x ELSE 0

\* the buffer column of world cell 0 taken without the tile's position
tile_base_offset_unshifted(padding, tile_start_x) == padding

\* base_offset / world_zero_in_buffer: the buffer column of world cell 0
tile_base_offset(padding, tile_start_x) == padding - tile_start_x

\* compute_tile up to the creation of the simulation buffer: all_data, with
\* generation 0 in row 0 and zeroes below
tile_all_data(tile_x, tile_y, tile_size, initial_state) ==
    LET tile_width == tile_size
        tile_height == tile_size
        tile_start_x == tile_x * tile_width
        generation_start == tile_y * tile_height
        generation_end == generation_start + tile_height
        padding == tile_padding(tile_y, tile_size)
        simulated_width == tile_width + 2 * padding
        total_generations == max0(generation_end)
        buffer_height == total_generations + 1
        row0 == initial_row(initial_state, simulated_width, tile_base_offset(padding, tile_start_x))
    IN  [all_data |-> initial_data(row0, simulated_width, buffer_height),
         simulated_width |-> simulated_width,
         padding |-> padding,
         total_generations |-> total_generations,
         buffer_height |-> buffer_height]

\* compute_tile up to the submit: the simulation buffer (ca_buffer) holding
\* generations 0..generation_end
simulate_tile(rule, tile_x, tile_y, tile_size, initial_state) ==
    LET d == tile_all_data(tile_x, tile_y, tile_size, initial_state)
    IN  [ca_buffer |-> dispatch_all(d.all_data, d.simulated_width, d.buffer_height, rule,
                                    0, d.total_generations),
         simulated_width |-> d.simulated_width,
         padding |-> d.padding]

\* the rows of the simulation buffer that compute_tile copies into the tile
tile_slice(tile_y, tile_size) ==
    LET tile_height == tile_size
        tile_gen_offset == max0(tile_y * tile_height)
    IN  [first_row |-> tile_gen_offset, rows |-> tile_height]

compute_tile(rule, tile_x, tile_y, tile_size, initial_state) ==
    LET tile_height == tile_size
        sim == simulate_tile(rule, tile_x, tile_y, tile_size, initial_state)
        tile_gen_offset == max0(tile_y * tile_height)
        tile_buffer_size == sim.simulated_width * tile_height
        source_offset == tile_gen_offset * sim.simulated_width
    IN  [buffer |-> copy_buffer_to_buffer(sim.ca_buffer, source_offset, zeroed(tile_buffer_size), 0, tile_buffer_size),
         simulated_width |-> sim.simulated_width,
         padding_left |-> sim.padding]

run_ca(rule, start_generation, iterations, visible_width, horizontal_offset, initial_state) ==
    LET total_generations == start_generation + iterations
        padding == total_generations
        simulated_width == visible_width + 2 * padding
        total_iterations == start_generation + iterations
        buffer_height == total_iterations + 1
        row0 == initial_row(initial_state, simulated_width, padding - horizontal_offset)
        all_data == initial_data(row0, simulated_width, buffer_height)
        ca_buffer == dispatch_all(all_data, simulated_width, buffer_height, rule, 0, total_iterations)
        visible_height == iterations + 1
        visible_buffer_size == simulated_width * visible_height
        source_offset == start_generation * simulated_width
    IN  [buffer |-> copy_buffer_to_buffer(ca_buffer, source_offset, zeroed(visible_buffer_size), 0, visible_buffer_size),
         simulated_width |-> simulated_width,
         visible_width |-> visible_width,
         height |-> visible_height,
         padding_left |-> padding]

(***************************************************************************)
(* run_ca_with_cache (compute.rs).                                         *)
(***************************************************************************)
\* division rounding toward zero (the `/` of i32) in place of div_euclid
div_truncating(a, b) == IF a >= 0 THEN a \div b ELSE -((-a) \div b)

\* i32::div_euclid for a positive divisor
div_euclid(a, b) == a \div b

\* i32 arithmetic without overflow checks: the sum wraps around
wrapping_i32(x) == ((x + MaxI32 + 1) % (2 * MaxI32 + 2)) - (MaxI32 + 1)

\* i32 arithmetic with overflow checks: the sum is out of range (the
\* operation panics)
overflows_i32(x) == x > MaxI32 \/ x < -(MaxI32 + 1)

\* for tile_y in tile_y_start..=tile_y_end { for tile_x in tile_x_start..=tile_x_end }
\* as the sequence of (tile_x, tile_y) in loop order
tile_grid(tile_x_start, tile_x_end, tile_y_start, tile_y_end) ==
    LET w == IF tile_x_end >= tile_x_start THEN tile_x_end - tile_x_start + 1 ELSE 0
        h == IF tile_y_end >= tile_y_start THEN tile_y_end - tile_y_start + 1 ELSE 0
    IN  [i \in 1..(w * h) |->
            [tile_x |-> tile_x_start + ((i - 1) % w), tile_y |-> tile_y_start + ((i - 1) \div w)]]

\* the tiles covering the viewport, in loop order
covering_tiles(start_generation, iterations, visible_width, horizontal_offset, tile_size) ==
    LET viewport_x_start == horizontal_offset
        viewport_x_end == wrapping_i32(horizontal_offset + visible_width)
        viewport_y_start == start_generation
        viewport_y_end == wrapping_i32(start_generation + iterations)
    IN  tile_grid(div_euclid(viewport_x_start, tile_size),
                  div_euclid(wrapping_i32(viewport_x_end - 1), tile_size),
                  div_euclid(viewport_y_start, tile_size),
                  div_euclid(wrapping_i32(viewport_y_end - 1), tile_size))

\* the viewport bounds of run_ca_with_cache overflow an i32 (a build with
\* overflow checks panics there)
viewport_overflows(start_generation, iterations, visible_width, horizontal_offset) ==
    \/ overflows_i32(horizontal_offset + visible_width)
    \/ overflows_i32(start_generation + iterations)

\* phase 1: get every covering tile, compute and insert the ones that miss
\* the queue submissions of compute_tile with the copy encoder submitted first
compute_tile_submits_copy_first(key) ==
    <<[kind |-> "slice", key |-> key], [kind |-> "dispatches", key |-> key]>>

\* the queue submissions of compute_tile for the tile stored under key: the
\* encoder of the dispatches, then the encoder of the slice copy
compute_tile_submits(key) ==
    <<[kind |-> "dispatches", key |-> key], [kind |-> "slice", key |-> key]>>

\* the cache after phase 1, with the queue submissions made on the way
RECURSIVE materialize(_, _, _, _, _)
materialize(c, rule, initial_state, grid, i) ==
    IF i > Len(grid) THEN [cache |-> c.cache, submitted |-> c.submitted]
    ELSE LET tile_key_i == tile_key(rule, initial_state, grid[i].tile_x, grid[i].tile_y, c.cache.tile_size)
             got == get(c.cache, tile_key_i)
         IN  IF is_none(got.result)
             THEN materialize([cache |-> insert(got.cache, tile_key_i,
                                                compute_tile(rule, grid[i].tile_x, grid[i].tile_y,
                                                             c.cache.tile_size, initial_state)),
                               submitted |-> c.submitted \o compute_tile_submits(tile_key_i)],
                              rule, initial_state, grid, i + 1)
             ELSE materialize([cache |-> got.cache, submitted |-> c.submitted],
                              rule, initial_state, grid, i + 1)

\* phase 2, one tile: for gen in copy_gen_start..copy_gen_end, one row copy
\* unless a safety check skips the row
\* the row gen of the overlap: the three safety checks and the offsets and
\* the size of the copy, in words
row_copy(t, v, gen) ==
    LET gen_in_viewport == gen - v.viewport_y_start
        gen_in_tile == gen - v.tile_gen_start
        slice_width == v.copy_x_end - v.copy_x_start
        x_in_tile_buffer == (v.copy_x_start - v.tile_world_x_start) + t.padding_left
        x_in_output_buffer == (v.copy_x_start - v.viewport_x_start) + v.padding
    IN  [generation_out_of_bounds |-> gen_in_tile >= v.tile_size \/ gen_in_viewport >= v.iterations,
         tile_x_overflow |-> x_in_tile_buffer + slice_width > t.simulated_width,
         output_x_overflow |-> x_in_output_buffer + slice_width > v.simulated_width,
         src_offset |-> gen_in_tile * t.simulated_width + x_in_tile_buffer,
         dst_offset |-> gen_in_viewport * v.simulated_width + x_in_output_buffer,
         copy_size |-> slice_width,
         src_words |-> Len(t.buffer),
         tile_words |-> t.simulated_width * v.tile_size]

\* a safety check skips the row
row_skipped(rc) == rc.generation_out_of_bounds \/ rc.tile_x_overflow \/ rc.output_x_overflow

RECURSIVE copy_rows(_, _, _, _, _)
copy_rows(out, t, v, gen, copy_gen_end) ==
    IF gen >= copy_gen_end THEN out
    ELSE LET rc == row_copy(t, v, gen)
         IN  copy_rows(IF row_skipped(rc) THEN out
                       ELSE copy_buffer_to_buffer(t.buffer, rc.src_offset, out, rc.dst_offset, rc.copy_size),
                       t, v, gen + 1, copy_gen_end)

\* the rows copy_rows goes through for one tile, in order
row_copies(t, v, copy_gen_start, copy_gen_end) ==
    [k \in 1..max0(copy_gen_end - copy_gen_start) |-> row_copy(t, v, copy_gen_start + k - 1)]

\* the overlap of the viewport and the tile with the generation range not
\* cut at the end of the viewport
tile_overlap_uncut(v, tile_x, tile_y) ==
    LET tile_world_x_start == tile_x * v.tile_size
        tile_world_x_end == tile_world_x_start + v.tile_size
        tile_gen_start == tile_y * v.tile_size
        tile_gen_end == tile_gen_start + v.tile_size
    IN  [tile_world_x_start |-> tile_world_x_start,
         tile_gen_start |-> tile_gen_start,
         copy_x_start |-> IF v.viewport_x_start > tile_world_x_start
                          THEN v.viewport_x_start ELSE tile_world_x_start,
         copy_x_end |-> IF v.viewport_x_end < tile_world_x_end
                        THEN v.viewport_x_end ELSE tile_world_x_end,
         copy_gen_start |-> IF v.viewport_y_start > tile_gen_start
                            THEN v.viewport_y_start ELSE tile_gen_start,
         copy_gen_end |-> tile_gen_end]

\* the overlap of the viewport and the tile (tile_x, tile_y)
tile_overlap(v, tile_x, tile_y) ==
    LET tile_world_x_start == tile_x * v.tile_size
        tile_world_x_end == tile_world_x_start + v.tile_size
        tile_gen_start == tile_y * v.tile_size
        tile_gen_end == tile_gen_start + v.tile_size
    IN  [tile_world_x_start |-> tile_world_x_start,
         tile_gen_start |-> tile_gen_start,
         copy_x_start |-> IF v.viewport_x_start > tile_world_x_start
                          THEN v.viewport_x_start ELSE tile_world_x_start,
         copy_x_end |-> IF v.viewport_x_end < tile_world_x_end
                        THEN v.viewport_x_end ELSE tile_world_x_end,
         copy_gen_start |-> IF v.viewport_y_start > tile_gen_start
                            THEN v.viewport_y_start ELSE tile_gen_start,
         copy_gen_end |-> IF v.viewport_y_end < tile_gen_end
                          THEN v.viewport_y_end ELSE tile_gen_end]

\* phase 2: get every covering tile again (expect: a miss panics) and copy its
\* overlap with the viewport into the output buffer
RECURSIVE assemble(_, _, _, _, _, _, _)
assemble(c, out, rule, initial_state, grid, i, v) ==
    IF i > Len(grid) THEN [cache |-> c, buffer |-> out.buffer, copies |-> out.copies,
                           read |-> out.read, panicked |-> FALSE]
    ELSE LET tile_x == grid[i].tile_x
             tile_y == grid[i].tile_y
             key == tile_key(rule, initial_state, tile_x, tile_y, c.tile_size)
             got == get(c, key)
             o == tile_overlap(v, tile_x, tile_y)
             vt == [viewport_x_start |-> v.viewport_x_start,
                    viewport_y_start |-> v.viewport_y_start,
                    tile_size |-> v.tile_size, iterations |-> v.iterations,
                    padding |-> v.padding, simulated_width |-> v.simulated_width,
                    tile_world_x_start |-> o.tile_world_x_start,
                    tile_gen_start |-> o.tile_gen_start,
                    copy_x_start |-> o.copy_x_start, copy_x_end |-> o.copy_x_end]
         IN  IF is_none(got.result)
             THEN [cache |-> got.cache, buffer |-> out.buffer, copies |-> out.copies,
                   read |-> out.read, panicked |-> TRUE]
             ELSE IF o.copy_x_end <= o.copy_x_start \/ o.copy_gen_end <= o.copy_gen_start
                  THEN assemble(got.cache, out, rule, initial_state, grid, i + 1, v)
                  ELSE assemble(got.cache,
                                [buffer |-> copy_rows(out.buffer, unwrap(got.result), vt,
                                                      o.copy_gen_start, o.copy_gen_end),
                                 copies |-> out.copies \o row_copies(unwrap(got.result), vt,
                                                                     o.copy_gen_start, o.copy_gen_end),
                                 read |-> out.read \cup {key}],
                                rule, initial_state, grid, i + 1, v)

\* run_ca_with_cache: the cache after the call, and the CaResult unless the
\* call panicked
run_ca_with_cache(rule, start_generation, iterations, visible_width, horizontal_offset, initial_state, c) ==
    LET viewport_x_start == horizontal_offset
        viewport_x_end == horizontal_offset + visible_width
        viewport_y_start == start_generation
        viewport_y_end == start_generation + iterations
        tile_size == c.tile_size
        grid == covering_tiles(start_generation, iterations, visible_width, horizontal_offset, tile_size)
        phase1 == materialize([cache |-> c, submitted |-> <<>>], rule, initial_state, grid, 1)
        c1 == phase1.cache
        total_generations == start_generation + iterations
        padding == total_generations
        simulated_width == visible_width + 2 * padding
        output_height == iterations + 1
        output_buffer == zeroed(simulated_width * output_height)
        v == [viewport_x_start |-> viewport_x_start, viewport_x_end |-> viewport_x_end,
              viewport_y_start |-> viewport_y_start, viewport_y_end |-> viewport_y_end,
              tile_size |-> tile_size, iterations |-> iterations,
              padding |-> padding, simulated_width |-> simulated_width]
        done == assemble(c1, [buffer |-> output_buffer, copies |-> <<>>, read |-> {}],
                         rule, initial_state, grid, 1, v)
    IN  [cache |-> done.cache,
         panicked |-> done.panicked,
         copies |-> done.copies,
         submitted |-> IF done.panicked THEN phase1.submitted
                       ELSE Append(phase1.submitted, [kind |-> "assembly", key |-> done.read]),
         result |-> [buffer |-> done.buffer,
                     simulated_width |-> simulated_width,
                     visible_width |-> visible_width,
                     height |-> output_height,
                     padding_left |-> padding]]

(***************************************************************************)
(* The world: the unbounded automaton evolved from generation 0.           *)
(***************************************************************************)
\* the value of world cell x at generation 0
world_initial(initial_state, x) ==
    IF is_none(initial_state)
    THEN IF x = 0 THEN 1 ELSE 0
    ELSE IF x >= 0 /\ x < Len(unwrap(initial_state))
         THEN cell_of_char(unwrap(initial_state)[x + 1]) ELSE 0

\* the world cells lo..hi at generation g, as a function on lo..hi
RECURSIVE world_row(_, _, _, _, _)
world_row(rule, initial_state, g, lo, hi) ==
    IF g = 0 THEN [x \in lo..hi |-> world_initial(initial_state, x)]
    ELSE LET prev == world_row(rule, initial_state, g - 1, lo - 1, hi + 1)
             row == [x \in lo..hi |-> next_cell(rule, prev[x - 1], prev[x], prev[x + 1])]
         IN  Stored(row)

(***************************************************************************)
(* Spec: the TileCache API under arbitrary calls.                          *)
(***************************************************************************)
\* the keys offered to the API: tiles of one tile column
Keys == {tile_key(DEFAULT_RULE, None, 0, i, TileSize) : i \in 0..(NKeys - 1)}

\* the tile values offered to insert
TileVals == 1..NTiles

\* hist: the calls made while they follow the test script (on), or off
OnHist(calls) == [on |-> TRUE, calls |-> calls]
Off == [on |-> FALSE, calls |-> <<>>]

\* the keys of the insert calls of a call sequence, in call order
RECURSIVE InsKeys(_)
InsKeys(h) ==
    IF h = <<>> THEN <<>>
    ELSE LET r == InsKeys(SubSeq(h, 1, Len(h) - 1))
         IN  IF h[Len(h)].op = "insert" THEN Append(r, h[Len(h)].key) ELSE r

\* The LRU test script for capacity C: C+1 inserts of distinct keys, a get of
\* the second-inserted key, an insert of a new key.
OnScript(h, C) ==
    LET n == Len(h)
        m == IF n < C + 1 THEN n ELSE C + 1
    IN  /\ C >= 1
        /\ n <= C + 3
        /\ \A i \in 1..m : h[i].op = "insert"
        /\ \A i, j \in 1..m : i # j => h[i].key # h[j].key
        /\ n >= C + 2 => h[C + 2] = [op |-> "get", key |-> h[2].key]
        /\ n >= C + 3 => /\ h[C + 3].op = "insert"
                         /\ h[C + 3].key \notin {h[i].key : i \in 1..(C + 1)}

Extend(h, op, C) ==
    IF h.on /\ OnScript(Append(h.calls, op), C)
    THEN OnHist(Append(h.calls, op))
    ELSE Off

\* the touch history after a touch of key
Touched(t, key) == push_front(retain_ne(t, key), key)

Init ==
    /\ \E c \in 0..MaxCap : cache = TileCache_new(c, TileSize)
    /\ touches = <<>>
    /\ gets = 0
    /\ hist = OnHist(<<>>)
    /\ built = None
    /\ produced = None
    /\ config = None
    /\ call = None
    /\ passes = 0
    /\ web = None
    /\ view = None
    /\ sizes = None
    /\ plan = None
    /\ app = None

Get(key) ==
    /\ gets < MaxGets
    /\ gets' = gets + 1
    /\ cache' = get(cache, key).cache
    /\ touches' = IF ~is_none(get(cache, key).result) THEN Touched(touches, key) ELSE touches
    /\ hist' = Extend(hist, [op |-> "get", key |-> key], cache.max_tiles)
    /\ UNCHANGED nonApiVars

Insert(key, tile) ==
    /\ gets' = gets
    /\ touches' = Touched(touches, key)
    /\ cache' = insert(cache, key, tile)
    /\ hist' = Extend(hist, [op |-> "insert", key |-> key], cache.max_tiles)
    /\ UNCHANGED nonApiVars

Clear ==
    /\ cache' = clear(cache)
    /\ touches' = <<>>
    /\ gets' = 0
    /\ hist' = OnHist(<<>>)
    /\ UNCHANGED nonApiVars

Next ==
    \/ \E key \in Keys : Get(key)
    \/ \E key \in Keys, tile \in TileVals : Insert(key, tile)
    \/ Clear

Spec == Init /\ [][Next]_vars

(***************************************************************************)
(* Claims about the TileCache API (checked under Spec).                    *)
(***************************************************************************)
Resident(c) == DOMAIN c.tiles

\* the key of S touched longest ago: the one furthest back in the touch history
Oldest(S, t) == CHOOSE k \in S : \A j \in S :
    (CHOOSE i \in 1..Len(t) : t[i] = j) <= (CHOOSE i \in 1..Len(t) : t[i] = k)

\* the keys a step removes from the tile map
Evicted == Resident(cache) \ Resident(cache')

\* Every step Get(key) counts a get.  Every step Insert(key, tile) leaves the
\* count alone, puts key at the head of the touch history and stores tile
\* under key, so the insert steps are the steps
\* Insert(InsertedKey, InsertedTile).
GetStep == gets' = gets + 1
InsertStep == gets' = gets /\ touches' # <<>>
InsertedKey == Head(touches')
InsertedTile == cache'.tiles[InsertedKey]

\* C1 (as amended): an insert of an absent key into a full cache of capacity
\* C >= 1 evicts exactly the resident key touched longest ago; an insert into a
\* cache that is not full evicts nothing; after C+1 inserts of distinct keys
\* only the first inserted is gone; and, for C >= 2, after a get of the
\* second-inserted and one insert of a new key the third-inserted is evicted.
C1_LruEviction ==
    [][/\ InsertStep => LET key == InsertedKey IN Insert(key, InsertedTile) =>
            /\ ( /\ cache.max_tiles >= 1
                 /\ Cardinality(Resident(cache)) = cache.max_tiles
                 /\ key \notin Resident(cache) )
               => Evicted = {Oldest(Resident(cache), touches)}
            /\ Cardinality(Resident(cache)) < cache.max_tiles => Evicted = {}
       /\ (hist'.on /\ Len(hist'.calls) = cache.max_tiles + 1) =>
            /\ Evicted = {hist'.calls[1].key}
            /\ Resident(cache') = {hist'.calls[i].key : i \in 2..(cache.max_tiles + 1)}
       /\ (hist'.on /\ Len(hist'.calls) = cache.max_tiles + 3 /\ cache.max_tiles >= 2) =>
            Evicted = {InsKeys(hist'.calls)[3]}
      ]_vars

\* C1 witness: the test script has run to its end on a cache of capacity >= 2
C1_Witness ==
    hist.on /\ cache.max_tiles >= 2 /\ Len(hist.calls) = cache.max_tiles + 3

\* C1 as stated: for every capacity C >= 1, the last insert of the test script
\* evicts the third-inserted key.
C1_Original ==
    [][(hist'.on /\ Len(hist'.calls) = cache.max_tiles + 3) =>
            Evicted = {InsKeys(hist'.calls)[3]}
      ]_vars

\* C2: the number of stored tiles never exceeds the capacity.
C2_SizeWithinCapacity == Cardinality(Resident(cache)) <= cache.max_tiles

\* C3: the LRU queue holds exactly the keys of the tile map, each once.
C3_QueueMatchesMap ==
    /\ Len(cache.lru_queue) = Cardinality(Resident(cache))
    /\ Range(cache.lru_queue) = Resident(cache)
    /\ NoDup(cache.lru_queue)

\* C3 witness: after at least one hit the cache holds two or more keys, one of
\* them with the second tile value
C3_Witness ==
    /\ Cardinality(Resident(cache)) >= 2
    /\ cache.hits >= 1
    /\ \E k \in Resident(cache) : cache.tiles[k] = 2

\* C4: front to back, the LRU queue lists the resident keys from the most
\* recently touched to the least recently touched (a touch is a get that hits
\* or an insert; a get that misses is none).
C4_QueueIsRecencyOrder ==
    cache.lru_queue = SelectSeq(touches, LAMBDA k : k \in Resident(cache))

\* C4 witness: a hit has reordered a queue of at least two keys after a miss
C4_Witness ==
    /\ Len(cache.lru_queue) >= 2
    /\ cache.hits >= 1
    /\ cache.misses >= 1
    /\ Len(touches) > Len(cache.lru_queue)

\* C5: hits + misses is the number of get calls; a get adds one to hits when
\* the key is resident and one to misses when it is not, and leaves the other
\* counter alone; an insert changes neither.
C5_HitMissAccounting ==
    [][/\ cache'.hits + cache'.misses = gets'
       /\ GetStep => \A key \in Keys : Get(key) =>
            IF key \in Resident(cache)
            THEN cache'.hits = cache.hits + 1 /\ cache'.misses = cache.misses
            ELSE cache'.misses = cache.misses + 1 /\ cache'.hits = cache.hits
       /\ InsertStep => ( Insert(InsertedKey, InsertedTile) =>
            cache'.hits = cache.hits /\ cache'.misses = cache.misses )
      ]_vars

\* C5 witness: the gets since the last clear have both hit and missed
C5_Witness == cache.hits >= 1 /\ cache.misses >= 1 /\ gets = MaxGets

\* C6: a get changes neither the resident keys nor any stored tile; a hit
\* changes only the recency order and hits, a miss only misses.
C6_GetFrame ==
    [][GetStep => \A key \in Keys : Get(key) =>
            /\ cache'.tiles = cache.tiles
            /\ cache'.max_tiles = cache.max_tiles
            /\ cache'.tile_size = cache.tile_size
            /\ IF key \in Resident(cache)
               THEN cache'.misses = cache.misses
               ELSE cache'.lru_queue = cache.lru_queue /\ cache'.hits = cache.hits
      ]_vars

\* C6 witness: a hit on the least recent key of a queue of two, and a miss
C6_Witness ==
    /\ Len(cache.lru_queue) >= 2
    /\ cache.hits >= 1
    /\ cache.misses >= 1

\* C7: with capacity 0 an insert leaves the tile map and the LRU queue empty
\* and a following get of the key misses.
C7_ZeroCapacityInsertNoOp ==
    [][\A key \in Keys, tile \in TileVals : (cache.max_tiles = 0 /\ Insert(key, tile)) =>
            /\ Resident(cache') = {}
            /\ cache'.lru_queue = <<>>
            /\ is_none(get(cache', key).result)
      ]_vars

(***************************************************************************)
(* SpecProducer: compute_tile applied to bounded tile coordinates.         *)
(***************************************************************************)
Rules == 0..255

\* Init draws the arguments of the call; produced.tile and produced.row0 (row
\* 0 of the simulation buffer as created) are None until it returns
InitProducer ==
    /\ cache = TileCache_new(0, TileSize)
    /\ touches = <<>>
    /\ gets = 0
    /\ hist = Off
    /\ built = None
    /\ \E rule \in Rules, initial_state \in InitialStates,
          tile_x \in (-MaxTileX)..MaxTileX, tile_y \in 0..MaxTileY :
            produced = [rule |-> rule, initial_state |-> initial_state,
                        tile_x |-> tile_x, tile_y |-> tile_y, tile_size |-> TileSize,
                        tile |-> None, row0 |-> None, dispatches |-> None, slice |-> None]
    /\ config = None
    /\ call = None
    /\ passes = 0
    /\ web = None
    /\ view = None
    /\ sizes = None
    /\ plan = None
    /\ app = None

ComputeTile ==
    /\ is_none(produced.tile)
    /\ produced' = [produced EXCEPT
            !.tile = Some(compute_tile(produced.rule, produced.tile_x, produced.tile_y,
                                       produced.tile_size, produced.initial_state)),
            !.row0 = LET d == tile_all_data(produced.tile_x, produced.tile_y,
                                            produced.tile_size, produced.initial_state)
                     IN  Some([columns |-> SubSeq(d.all_data, 1, d.simulated_width),
                               padding |-> d.padding]),
            !.dispatches = LET d == tile_all_data(produced.tile_x, produced.tile_y,
                                                  produced.tile_size, produced.initial_state)
                           IN  Some(dispatch_params(d.simulated_width, d.buffer_height, produced.rule,
                                                    0, d.total_generations)),
            !.slice = Some(tile_slice(produced.tile_y, produced.tile_size))]
    /\ UNCHANGED <<cache, touches, gets, hist, built, config, call, passes, plan, app, sizes, view, web>>

NextProducer == ComputeTile

SpecProducer == InitProducer /\ [][NextProducer]_vars

\* the word of a produced tile at (row, visible column)
VisibleWord(t, row, column) ==
    word_at(t.buffer, t.simulated_width, row, t.padding_left + column)

C14_RowZeroIsGenerationZero ==
    ~is_none(produced.row0) =>
        LET a == produced
            r == unwrap(a.row0)
        IN  /\ Len(r.columns) = a.tile_size + 2 * r.padding
            /\ \A c \in 0..(Len(r.columns) - 1) :
                  LET w == a.tile_x * a.tile_size - r.padding + c
                  IN  r.columns[c + 1] =
                        IF is_none(a.initial_state)
                        THEN IF w = 0 THEN 1 ELSE 0
                        ELSE LET s == unwrap(a.initial_state)
                             IN  IF 0 <= w /\ w < Len(s) /\ s[w + 1] = "1" THEN 1 ELSE 0

\* C14 witness: the tile left of world cell 0 in the second tile row was
\* simulated from "101", and row 0 holds 1, 0, 1 at the columns of world
\* cells 0, 1, 2
C14_Witness ==
    /\ ~is_none(produced.row0)
    /\ produced.tile_x = -1
    /\ produced.tile_y = 1
    /\ produced.initial_state = Some(<<"1", "0", "1">>)
    /\ LET r == unwrap(produced.row0)
           zero == r.padding + produced.tile_size
       IN  /\ r.columns[zero + 1] = 1
           /\ r.columns[zero + 2] = 0
           /\ r.columns[zero + 3] = 1

(***************************************************************************)
(* SpecKey: TileKey::new applied to two tiles.                             *)
(***************************************************************************)
KeyRules == {DEFAULT_RULE, 90}

\* the arguments of a key: rule, initial state and tile coordinates
KeyArgs ==
    [rule : KeyRules, initial_state : InitialStates,
     tile_x : (-MaxTileX)..MaxTileX, tile_y : 0..MaxTileY]

\* Init draws the arguments of the two keys; built.keys is None until they are built
InitKey ==
    /\ cache = TileCache_new(0, TileSize)
    /\ touches = <<>>
    /\ gets = 0
    /\ hist = Off
    /\ \E a \in KeyArgs, b \in KeyArgs : built = [a |-> a, b |-> b, keys |-> None]
    /\ produced = None
    /\ config = None
    /\ call = None
    /\ passes = 0
    /\ web = None
    /\ view = None
    /\ sizes = None
    /\ plan = None
    /\ app = None

BuildKeys ==
    /\ is_none(built.keys)
    /\ built' = [built EXCEPT !.keys = Some(
            <<tile_key(built.a.rule, built.a.initial_state, built.a.tile_x, built.a.tile_y, TileSize),
              tile_key(built.b.rule, built.b.initial_state, built.b.tile_x, built.b.tile_y, TileSize)>>)]
    /\ UNCHANGED <<cache, touches, gets, hist, produced, config, call, passes, plan, app, sizes, view, web>>

NextKey == BuildKeys

SpecKey == InitKey /\ [][NextKey]_vars

\* C8: two keys are equal if and only if rule, initial-state digest, tile_x
\* and tile_y all match.
C8_KeyEqualityIffFieldsMatch ==
    ~is_none(built.keys) =>
        ( unwrap(built.keys)[1] = unwrap(built.keys)[2]
          <=> /\ built.a.rule = built.b.rule
              /\ hash_initial_state(built.a.initial_state) = hash_initial_state(built.b.initial_state)
              /\ built.a.tile_x = built.b.tile_x
              /\ built.a.tile_y = built.b.tile_y )

(***************************************************************************)
(* SpecPlan: the tile ranges run_ca_with_cache plans for a viewport.       *)
(***************************************************************************)
\* tile sizes of the planner
PlanTileSizes == 1..(TileSize + 1)

\* viewports anywhere in the i32 range
PlanViewports ==
    [start_generation : 0..MaxStart, iterations : 1..MaxIter,
     visible_width : 1..MaxWidth, horizontal_offset : (-(MaxI32 + 1))..MaxI32]

InitPlan ==
    /\ cache = TileCache_new(0, TileSize)
    /\ touches = <<>>
    /\ gets = 0
    /\ hist = Off
    /\ built = None
    /\ produced = None
    /\ config = None
    /\ call = None
    /\ passes = 0
    /\ web = None
    /\ view = None
    /\ sizes = None
    /\ app = None
    /\ \E a \in PlanViewports, tile_size \in PlanTileSizes, overflow_checks \in BOOLEAN :
          plan = [args |-> a, tile_size |-> tile_size,
                  overflow_checks |-> overflow_checks, result |-> None]

\* the planning part of run_ca_with_cache: the viewport bounds and the tile
\* ranges, or a panic in a build with overflow checks
PlanTiles ==
    /\ is_none(plan.result)
    /\ LET a == plan.args
           panics == plan.overflow_checks /\ viewport_overflows(a.start_generation, a.iterations,
                                                              a.visible_width, a.horizontal_offset)
       IN  plan' = [plan EXCEPT !.result =
                       Some([panicked |-> panics,
                             grid |-> IF panics THEN <<>>
                                      ELSE covering_tiles(a.start_generation, a.iterations,
                                                          a.visible_width, a.horizontal_offset,
                                                          plan.tile_size)])]
    /\ UNCHANGED <<cache, touches, gets, hist, built, produced, config, call, passes, app, sizes, view, web>>

NextPlan == PlanTiles

SpecPlan == InitPlan /\ [][NextPlan]_vars

\* the cells of tile (tile_x, tile_y) that lie in the viewport rectangle
TileCellsInViewport(t, a, tile_size) ==
    {xy \in (a.horizontal_offset..(a.horizontal_offset + a.visible_width - 1))
            \X (a.start_generation..(a.start_generation + a.iterations - 1)) :
        /\ t.tile_x * tile_size <= xy[1] /\ xy[1] < t.tile_x * tile_size + tile_size
        /\ t.tile_y * tile_size <= xy[2] /\ xy[2] < t.tile_y * tile_size + tile_size}

\* the tile ranges were planned for a viewport whose bounds fit an i32
PlannedInRange ==
    /\ ~is_none(plan.result)
    /\ ~viewport_overflows(plan.args.start_generation, plan.args.iterations,
                           plan.args.visible_width, plan.args.horizontal_offset)

\* the planned tile ranges cover every cell of the viewport rectangle
\* [x_start, x_end) x [y_start, y_end), and every planned tile intersects it
CoversExactly ==
    LET a == plan.args
        r == unwrap(plan.result)
        planned == Range(r.grid)
    IN  /\ ~r.panicked
        /\ \A x \in a.horizontal_offset..(a.horizontal_offset + a.visible_width - 1),
              y \in a.start_generation..(a.start_generation + a.iterations - 1) :
              \E t \in planned : <<x, y>> \in TileCellsInViewport(t, a, plan.tile_size)
        /\ \A t \in planned : TileCellsInViewport(t, a, plan.tile_size) # {}

AsmRules == {DEFAULT_RULE, 105}
AsmStates == {None, Some(<<"1", "0", "1">>)}

Viewports ==
    [start_generation : 0..MaxStart, iterations : 1..MaxIter,
     visible_width : 1..MaxWidth, horizontal_offset : (-MaxOffset)..MaxOffset]

InitTile ==
    /\ \E c \in 1..MaxTileCap : cache = TileCache_new(c, TileSize)
    /\ touches = <<>>
    /\ gets = 0
    /\ hist = Off
    /\ built = None
    /\ produced = None
    /\ \E rule \in AsmRules, initial_state \in AsmStates :
          config = [rule |-> rule, initial_state |-> initial_state]
    /\ call = None
    /\ passes = 0
    /\ web = None
    /\ view = None
    /\ sizes = None
    /\ plan = None
    /\ app = None

\* compute_ca with a cache: one call of run_ca_with_cache; a panic ends the
\* application
RunCaWithCache(a) ==
    /\ passes < MaxPasses
    /\ IF is_none(call) THEN TRUE ELSE ~unwrap(call).panicked
    /\ LET r == run_ca_with_cache(config.rule, a.start_generation, a.iterations,
                                  a.visible_width, a.horizontal_offset,
                                  config.initial_state, cache)
       IN  /\ cache' = r.cache
           /\ call' = Some([args |-> a, panicked |-> r.panicked, result |-> r.result,
                            copies |-> r.copies,
                            submitted |-> r.submitted,
                            tiles_needed |-> Len(covering_tiles(a.start_generation, a.iterations,
                                   a.visible_width, a.horizontal_offset, cache.tile_size)),
                            before |-> cache,
                            prev |-> IF is_none(call) THEN None ELSE Some(unwrap(call).args)])
    /\ passes' = passes + 1
    /\ UNCHANGED <<touches, gets, hist, built, produced, config, plan, app, sizes, view, web>>

NextTile == \E a \in Viewports : RunCaWithCache(a)

SpecTile == InitTile /\ [][NextTile]_vars

\* C10: with a cache large enough for all covering tiles, the buffer of
\* run_ca_with_cache equals the buffer of run_ca in every visible cell: every
\* row in [0, height) and every column in [padding_left, padding_left +
\* visible_width).
C10_AssembledEqualsMonolithic ==
    ( /\ ~is_none(call)
      /\ ~unwrap(call).panicked
      /\ cache.max_tiles >= unwrap(call).tiles_needed ) =>
        LET a == unwrap(call).args
            r == unwrap(call).result
            m == run_ca(config.rule, a.start_generation, a.iterations, a.visible_width,
                        a.horizontal_offset, config.initial_state)
        IN  /\ r.height = m.height
            /\ r.simulated_width = m.simulated_width
            /\ r.padding_left = m.padding_left
            /\ \A row \in 0..(r.height - 1) :
                 \A column \in r.padding_left..(r.padding_left + r.visible_width - 1) :
                    word_at(r.buffer, r.simulated_width, row, column)
                        = word_at(m.buffer, m.simulated_width, row, column)

\* the tiles covering the viewport of a call, as a set of grid positions
TilesOf(a) ==
    Range(covering_tiles(a.start_generation, a.iterations, a.visible_width,
                         a.horizontal_offset, cache.tile_size))

\* the number of tile columns of the viewport of a call
tile_x_span(a) == Cardinality({t.tile_x : t \in TilesOf(a)})

\* C12: when the viewport needs more tiles than the cache of capacity C >= 1
\* holds, the pass completes normally and leaves exactly C entries.
C12_OverCapacityPassCompletes ==
    ( /\ ~is_none(call)
      /\ cache.max_tiles >= 1
      /\ unwrap(call).tiles_needed > cache.max_tiles ) =>
        /\ ~unwrap(call).panicked
        /\ Cardinality(Resident(cache)) = cache.max_tiles

\* the last call is a second pass over the viewport of the first pass scrolled
\* down by one tile, and the cache holds all tiles of both passes
ScrolledDownOneTile ==
    /\ ~is_none(call)
    /\ ~is_none(unwrap(call).prev)
    /\ LET a == unwrap(call).args
           p == unwrap(unwrap(call).prev)
       IN  /\ a.start_generation = p.start_generation + cache.tile_size
           /\ a.iterations = p.iterations
           /\ a.visible_width = p.visible_width
           /\ a.horizontal_offset = p.horizontal_offset
           /\ cache.max_tiles >= Cardinality(TilesOf(a) \cup TilesOf(p))

\* C13: the second pass, over the viewport scrolled down by one tile, misses
\* (and so runs compute_tile) exactly tile_x_span times; every other get of
\* the pass is a hit.
C13_ScrollProducesNewRowOnly ==
    ScrolledDownOneTile =>
        LET a == unwrap(call).args
            b == unwrap(call).before
        IN  /\ ~unwrap(call).panicked
            /\ cache.misses - b.misses = tile_x_span(a)
            /\ cache.hits - b.hits = 2 * unwrap(call).tiles_needed - tile_x_span(a)

(***************************************************************************)
(* Specification SpecApp: the RenderApp between window creation and exit.  *)
(* The application state is the record app.  Time is a clock of ticks,     *)
(* debounce_ms counts ticks, and Instant::now() reads the clock.  Viewport *)
(* offsets are kept in whole cells, the values compute_ca derives from     *)
(* them with `as i32` and `as u32`; viewport.zoom is 1.0 throughout, as no *)
(* handler assigns another value.  A recomputation pass is represented by  *)
(* the arguments it is called with and by the CaResult metadata it returns;*)
(* its tiles and cache traffic are the subject of SpecTile.  The native    *)
(* build is modelled (the cfg(target_arch = "wasm32") blocks are absent).  *)
(*                                                                         *)
(* History fields of app, which no handler reads: runs (calls of run_ca or *)
(* run_ca_with_cache, each of which allocates the output buffer), outcome  *)
(* (what compute_ca did in the last step, if called), inputs (the input    *)
(* events so far), log (with their instants: the first computation, the    *)
(* changes, the passes of the per-frame check, and for each change the     *)
(* first frame drawn after it when that frame ran no pass).                *)
(***************************************************************************)

\* ceil(a / b) of two non-negative numbers, b > 0
ceil_div(a, b) == (a + b - 1) \div b

\* the metadata of the CaResult that run_ca and run_ca_with_cache return
CaResult_of(start_generation, iterations, visible_width) ==
    LET total_generations == start_generation + iterations
        padding == total_generations
    IN  [simulated_width |-> visible_width + 2 * padding,
         visible_width |-> visible_width,
         height |-> iterations + 1,
         padding_left |-> padding]

\* the safety limits of compute_ca, in the order the code tests them
cell_size_too_small(a) == a.current_cell_size < MIN_CELL_SIZE
visible_cells_x_of(a) == ceil_div(a.window_width, a.current_cell_size)
visible_cells_y_of(a) == ceil_div(a.window_height, a.current_cell_size)
dimensions_exceeded(a) == visible_cells_x_of(a) > MAX_CELLS_X \/ visible_cells_y_of(a) > MAX_CELLS_Y
total_cells(a) == (visible_cells_x_of(a) * 3) * visible_cells_y_of(a)

\* the total-cell limit switched off
total_unlimited(a) == FALSE
total_exceeded(a) == total_cells(a) > MAX_TOTAL_CELLS

\* compute_ca without its safety limits
compute_ca_unchecked(a) ==
    LET visible_cells_x == visible_cells_x_of(a)
        visible_cells_y == visible_cells_y_of(a)
        start_generation == max0(a.viewport.offset_y)
        iterations == visible_cells_y
        horizontal_offset == a.viewport.offset_x
        ca_result == CaResult_of(start_generation, iterations, visible_cells_x)
        buffer == [allocation |-> a.runs + 1,
                   cached |-> a.cached,
                   start_generation |-> start_generation,
                   iterations |-> iterations,
                   visible_width |-> visible_cells_x,
                   horizontal_offset |-> horizontal_offset]
    IN  [a EXCEPT !.buffer_viewport = a.viewport,
                  !.buffer_simulated_width = ca_result.simulated_width,
                  !.buffer_padding_left = ca_result.padding_left,
                  !.ca_buffer = Some(buffer),
                  !.bind_group = Some([buffer |-> buffer.allocation]),
                  !.needs_recompute = FALSE,
                  !.runs = a.runs + 1,
                  !.outcome = "computed"]

\* compute_ca: a rejected pass returns before anything is computed
compute_ca(a) ==
    IF cell_size_too_small(a) THEN [a EXCEPT !.outcome = "rejected"]
    ELSE IF dimensions_exceeded(a) THEN [a EXCEPT !.outcome = "rejected"]
    ELSE IF total_exceeded(a) THEN [a EXCEPT !.outcome = "rejected"]
    ELSE compute_ca_unchecked(a)

\* history: a viewport change, a pass of the per-frame check
log_change(a) == [a EXCEPT !.log = Append(@, [kind |-> "change", at |-> a.now])]
log_pass(a) == [a EXCEPT !.log = Append(@, [kind |-> "pass", at |-> a.now])]

\* history: the first computation, made by init_window
log_init(a) == [a EXCEPT !.log = Append(@, [kind |-> "init", at |-> a.now])]

\* history: the first frame drawn after a change, unless it ran a pass
log_frame(a) ==
    IF a.log # <<>> /\ a.log[Len(a.log)].kind = "change"
    THEN [a EXCEPT !.log = Append(@, [kind |-> "frame", at |-> a.now])]
    ELSE a

\* the test that waits for more than the debounce time
debounce_exceeded(elapsed, debounce_duration) == elapsed > debounce_duration

\* a mark_viewport_changed that recomputes at once instead of deferring
mark_viewport_changed_eager(a) ==
    compute_ca(log_change([a EXCEPT !.last_viewport_change = Some(a.now),
                                    !.needs_recompute = TRUE,
                                    !.redraw_requested = IF a.window THEN TRUE ELSE @]))

\* mark_viewport_changed
mark_viewport_changed(a) ==
    log_change([a EXCEPT !.last_viewport_change = Some(a.now),
                         !.needs_recompute = TRUE,
                         !.redraw_requested = IF a.window THEN TRUE ELSE @])

\* the test of check_debounce_and_recompute, with the test that lets every
\* frame through
debounce_ignored(elapsed, debounce_duration) == TRUE
debounce_elapsed(elapsed, debounce_duration) == elapsed >= debounce_duration

\* check_debounce_and_recompute, and the variant that keeps the instant of
\* the change after the pass
check_debounce_keeps_change(a) ==
    IF is_none(a.last_viewport_change) THEN a
    ELSE IF debounce_elapsed(a.now - unwrap(a.last_viewport_change), a.debounce_ms) /\ a.needs_recompute
         THEN log_pass(compute_ca(a))
         ELSE a

check_debounce_and_recompute(a) ==
    IF is_none(a.last_viewport_change) THEN a
    ELSE IF debounce_elapsed(a.now - unwrap(a.last_viewport_change), a.debounce_ms) /\ a.needs_recompute
         THEN [log_pass(compute_ca(a)) EXCEPT !.last_viewport_change = None]
         ELSE a

\* reset_viewport
reset_viewport(a) ==
    log_change([a EXCEPT !.current_cell_size = DEFAULT_CELL_SIZE,
                         !.viewport = [offset_x |-> -((a.window_width \div DEFAULT_CELL_SIZE) \div 2),
                                       offset_y |-> 0],
                         !.needs_recompute = TRUE,
                         !.last_viewport_change = Some(a.now),
                         !.redraw_requested = IF a.window THEN TRUE ELSE @])

\* the zoom levels of handle_zoom and of the pinch gesture, within
\* DEFAULT_CELL_SIZE * ZOOM_MIN (at least 1) and DEFAULT_CELL_SIZE * ZOOM_MAX
wheel_zoom_levels ==
    <<2, 3, 4, 5, 6, 7, 8, 9, 10, 12, 14, 16, 18, 20, 24, 28, 32, 36, 40, 45, 50, 60, 70, 80, 90, 100, 120, 140, 160, 180, 200, 250, 300, 350, 400, 450, 500>>

pinch_zoom_levels ==
    <<1, 2, 3, 4, 5, 6, 7, 8, 9, 10, 12, 15, 20, 25, 30, 40, 50, 75, 100, 150, 200, 300, 400, 500>>

\* iter().position(|&size| size >= old).unwrap_or(len - 1), counted from 1
zoom_position(levels, old_cell_size) ==
    LET at == {i \in 1..Len(levels) : levels[i] >= old_cell_size}
    IN  IF at = {} THEN Len(levels) ELSE CHOOSE i \in at : \A j \in at : i <= j

\* handle_zoom: one level up (delta > 0) or down; the offsets that keep the
\* cell under the cursor in place are the input new_viewport
handle_zoom(a, zoom_in, new_viewport) ==
    LET old_cell_size == a.current_cell_size
        current_index == zoom_position(wheel_zoom_levels, old_cell_size)
        new_index == IF zoom_in
                     THEN (IF current_index + 1 < Len(wheel_zoom_levels) THEN current_index + 1 ELSE Len(wheel_zoom_levels))
                     ELSE (IF current_index > 1 THEN current_index - 1 ELSE 1)
        new_cell_size == wheel_zoom_levels[new_index]
    IN  IF new_cell_size # old_cell_size
        THEN mark_viewport_changed([a EXCEPT !.current_cell_size = new_cell_size,
                                             !.viewport = [offset_x |-> new_viewport.offset_x,
                                                           offset_y |-> max0(new_viewport.offset_y)]])
        ELSE a

\* the drag of CursorMoved and of a one-finger touch: the offsets of the drag
\* start moved by the cells the pointer travelled
pan(a, delta_cells) ==
    LET drag == unwrap(a.drag_state)
    IN  mark_viewport_changed(
            [a EXCEPT !.viewport = [offset_x |-> drag.viewport_at_start.offset_x + delta_cells[1],
                                    offset_y |-> max0(drag.viewport_at_start.offset_y + delta_cells[2])]])

\* window_event, CursorMoved
cursor_moved(a, delta_cells) ==
    IF is_none(a.drag_state) THEN a
    ELSE IF unwrap(a.drag_state).active THEN pan(a, delta_cells) ELSE a

\* window_event, MouseInput of the left button
mouse_input(a, pressed) ==
    IF pressed
    THEN [a EXCEPT !.drag_state = Some([active |-> TRUE, viewport_at_start |-> a.viewport])]
    ELSE IF is_none(a.drag_state) THEN a
         ELSE [a EXCEPT !.drag_state = Some([unwrap(@) EXCEPT !.active = FALSE])]

\* window_event, Resized: a minimised window is recorded and nothing else;
\* new_viewport is the viewport after the adjustment for a moved left or top
\* edge
resized(a, physical_size, new_viewport) ==
    LET sized == [a EXCEPT !.window_width = physical_size[1], !.window_height = physical_size[2]]
    IN  IF physical_size[1] = 0 \/ physical_size[2] = 0 THEN sized
        ELSE mark_viewport_changed([sized EXCEPT !.viewport = [offset_x |-> new_viewport.offset_x,
                                                               offset_y |-> max0(new_viewport.offset_y)]])

\* handle_touch, TouchPhase::Started
touch_started(a, id) ==
    IF is_none(a.touch_state.touch1)
    THEN [a EXCEPT !.touch_state.touch1 = Some(id),
                   !.touch_state.single_touch = Some(id),
                   !.drag_state = Some([active |-> TRUE, viewport_at_start |-> a.viewport])]
    ELSE IF is_none(a.touch_state.touch2)
    THEN [a EXCEPT !.touch_state.touch2 = Some(id),
                   !.touch_state.single_touch = None,
                   !.drag_state = None,
                   !.touch_state.initial_cell_size = Some(a.current_cell_size)]
    ELSE a

\* handle_touch, TouchPhase::Moved: a one-finger pan or a pinch whose nearest
\* zoom level is new_cell_size
touch_moved(a, id, delta_cells, new_cell_size, new_viewport) ==
    IF ~is_none(a.touch_state.single_touch)
    THEN IF id = unwrap(a.touch_state.single_touch) /\ ~is_none(a.drag_state)
         THEN pan(a, delta_cells)
         ELSE a
    ELSE IF ~is_none(a.touch_state.touch1) /\ ~is_none(a.touch_state.touch2)
              /\ ~is_none(a.touch_state.initial_cell_size)
    THEN IF new_cell_size # a.current_cell_size
         THEN mark_viewport_changed([a EXCEPT !.current_cell_size = new_cell_size,
                                              !.viewport = [offset_x |-> new_viewport.offset_x,
                                                            offset_y |-> max0(new_viewport.offset_y)]])
         ELSE a
    ELSE a

\* handle_touch, TouchPhase::Ended and Cancelled
touch_ended(a, id) ==
    LET t == a.touch_state
        first_ended == ~is_none(t.touch1) /\ t.touch1 = Some(id)
        t1 == IF first_ended THEN [t EXCEPT !.touch1 = t.touch2, !.touch2 = None] ELSE t
        t2 == IF ~is_none(t1.touch2) /\ t1.touch2 = Some(id) THEN [t1 EXCEPT !.touch2 = None] ELSE t1
        single_ended == ~is_none(t2.single_touch) /\ t2.single_touch = Some(id)
        t3 == IF single_ended THEN [t2 EXCEPT !.single_touch = None] ELSE t2
        d3 == IF single_ended THEN None ELSE a.drag_state
        t4 == IF is_none(t3.touch1) THEN [t3 EXCEPT !.initial_cell_size = None] ELSE t3
    IN  IF ~is_none(t4.touch1) /\ is_none(t4.touch2)
        THEN [a EXCEPT !.touch_state = [t4 EXCEPT !.single_touch = t4.touch1],
                       !.drag_state = Some([active |-> TRUE, viewport_at_start |-> a.viewport])]
        ELSE [a EXCEPT !.touch_state = t4, !.drag_state = d3]

\* init_window: the actual window size replaces the configured one unless it
\* is zero; the first pass is computed and the first redraw requested
init_window(a, actual_size) ==
    LET sized == IF actual_size[1] > 0 /\ actual_size[2] > 0
                 THEN [a EXCEPT !.window_width = actual_size[1], !.window_height = actual_size[2]]
                 ELSE a
    IN  [log_init(compute_ca([sized EXCEPT !.window = TRUE])) EXCEPT !.redraw_requested = TRUE]

\* a RedrawRequested that does not look at the window size
on_redraw_unguarded(a) ==
    [log_frame(check_debounce_and_recompute(a)) EXCEPT !.rendered = TRUE]

\* window_event, RedrawRequested: nothing is drawn for a minimised window;
\* render reads the state and writes the uniform only
on_redraw_requested(a) ==
    IF a.window_width = 0 \/ a.window_height = 0 THEN a
    ELSE [log_frame(check_debounce_and_recompute(a)) EXCEPT !.rendered = TRUE]

\* the inputs of a behaviour: window sizes (minimised, too many cells in
\* total, too many columns, too many rows), pointer travel in cells, pinch
\* results, touch ids
WindowSizes == {<<0, DEFAULT_HEIGHT>>, <<30000, 30000>>, <<50010, DEFAULT_HEIGHT>>, <<DEFAULT_WIDTH, 50010>>}
PanDeltas == {<<1, 1>>}
PinchSizes == {1}
TouchIds == {1, 2}

\* RenderApp::new for a validated Config
RenderApp_new(debounce_ms, cache_tiles, width, height) ==
    [debounce_ms |-> debounce_ms,
     cached |-> cache_tiles > 0,
     window |-> FALSE,
     window_width |-> width,
     window_height |-> height,
     current_cell_size |-> DEFAULT_CELL_SIZE,
     viewport |-> [offset_x |-> -((width \div DEFAULT_CELL_SIZE) \div 2), offset_y |-> 0],
     buffer_viewport |-> [offset_x |-> 0, offset_y |-> 0],
     drag_state |-> None,
     touch_state |-> [touch1 |-> None, touch2 |-> None, single_touch |-> None,
                      initial_cell_size |-> None],
     last_viewport_change |-> None,
     needs_recompute |-> TRUE,
     ca_buffer |-> None,
     bind_group |-> None,
     buffer_simulated_width |-> width \div DEFAULT_CELL_SIZE,
     buffer_padding_left |-> 0,
     redraw_requested |-> FALSE,
     now |-> 0,
     runs |-> 0,
     inputs |-> 0,
     outcome |-> "none",
     rendered |-> FALSE,
     log |-> <<>>]

InitApp ==
    /\ cache = TileCache_new(0, TileSize)
    /\ touches = <<>>
    /\ gets = 0
    /\ hist = Off
    /\ built = None
    /\ produced = None
    /\ config = None
    /\ call = None
    /\ passes = 0
    /\ web = None
    /\ view = None
    /\ sizes = None
    /\ plan = None
    /\ \E debounce_ms \in 0..MaxDebounce :
          app = RenderApp_new(debounce_ms, DEFAULT_CACHE_TILES, DEFAULT_WIDTH, DEFAULT_HEIGHT)

otherVars == <<cache, touches, gets, hist, built, produced, config, call, passes, plan, sizes, view, web>>

\* the user stops after MaxInputs input events
UserActive == app.window /\ app.inputs < MaxInputs

\* a handler starts with no pass outcome
Begin == [app EXCEPT !.outcome = "none", !.rendered = FALSE]

\* a handler of an input event
Input == [Begin EXCEPT !.inputs = @ + 1]

Resumed ==
    /\ ~app.window
    /\ \E actual_size \in {<<0, 0>>, <<DEFAULT_WIDTH, DEFAULT_HEIGHT>>} :
          app' = init_window(Begin, actual_size)
    /\ UNCHANGED otherVars

\* Instant::now() advances
Tick ==
    /\ app.now < MaxTime
    /\ app' = [app EXCEPT !.now = @ + 1]
    /\ UNCHANGED otherVars

\* a RedrawRequested event: the one asked for with request_redraw, or one the
\* window system sends on its own
RedrawRequested ==
    /\ app.window
    /\ app' = on_redraw_requested([Begin EXCEPT !.redraw_requested = FALSE])
    /\ UNCHANGED otherVars

Resized ==
    /\ UserActive
    /\ \E physical_size \in WindowSizes :
          app' = resized(Input, physical_size, app.viewport)
    /\ UNCHANGED otherVars

MouseWheel ==
    /\ UserActive
    /\ \E zoom_in \in BOOLEAN : app' = handle_zoom(Input, zoom_in, app.viewport)
    /\ UNCHANGED otherVars

CursorMoved ==
    /\ UserActive
    /\ \E delta_cells \in PanDeltas : app' = cursor_moved(Input, delta_cells)
    /\ UNCHANGED otherVars

MouseInput ==
    /\ UserActive
    /\ \E pressed \in BOOLEAN : app' = mouse_input(Input, pressed)
    /\ UNCHANGED otherVars

KeyboardInput ==
    /\ UserActive
    /\ app' = reset_viewport(Input)
    /\ UNCHANGED otherVars

TouchStarted ==
    /\ UserActive
    /\ \E id \in TouchIds :
          /\ Some(id) \notin {app.touch_state.touch1, app.touch_state.touch2}
          /\ \A other \in TouchIds : other < id => Some(other) \in {app.touch_state.touch1, app.touch_state.touch2}
          /\ app' = touch_started(Input, id)
    /\ UNCHANGED otherVars

TouchMoved ==
    /\ UserActive
    /\ \E id \in TouchIds, delta_cells \in PanDeltas, new_cell_size \in PinchSizes :
          /\ Some(id) \in {app.touch_state.touch1, app.touch_state.touch2}
          /\ app' = touch_moved(Input, id, delta_cells, new_cell_size, app.viewport)
    /\ UNCHANGED otherVars

TouchEnded ==
    /\ UserActive
    /\ \E id \in TouchIds :
          /\ Some(id) \in {app.touch_state.touch1, app.touch_state.touch2}
          /\ app' = touch_ended(Input, id)
    /\ UNCHANGED otherVars

NextApp ==
    \/ Resumed
    \/ Tick
    \/ RedrawRequested
    \/ Resized
    \/ MouseWheel
    \/ CursorMoved
    \/ MouseInput
    \/ KeyboardInput
    \/ TouchStarted
    \/ TouchMoved
    \/ TouchEnded

SpecApp == InitApp /\ [][NextApp]_vars

\* the step is a pass invoked by the per-frame check
PassStep == Len(app'.log) = Len(app.log) + 1 /\ app'.log[Len(app'.log)].kind = "pass"

\* the step is a viewport change
ChangeStep == Len(app'.log) = Len(app.log) + 1 /\ app'.log[Len(app'.log)].kind = "change"

\* the positions of the changes and of the passes in a log
ChangesIn(log) == {i \in 1..Len(log) : log[i].kind = "change"}
PassesIn(log) == {i \in 1..Len(log) : log[i].kind = "pass"}

\* the position of the most recent change in a log that has one
LastChange(log) == CHOOSE i \in ChangesIn(log) : \A j \in ChangesIn(log) : j <= i

\* C15: the per-frame check invokes a pass only in a state where
\* needs_recompute is true, a viewport change has happened, and at least
\* debounce_ms has elapsed since the most recent one
C15_PassOnlyAfterQuiescence ==
    [][PassStep =>
          /\ app.needs_recompute
          /\ ChangesIn(app.log) # {}
          /\ app.now - app.log[LastChange(app.log)].at >= app.debounce_ms]_vars

\* a pass ran exactly debounce_ms > 0 after the change before it
C15_Witness ==
    /\ app.debounce_ms > 0
    /\ Len(app.log) >= 2
    /\ app.log[Len(app.log)].kind = "pass"
    /\ app.log[Len(app.log) - 1].kind = "change"
    /\ app.log[Len(app.log)].at - app.log[Len(app.log) - 1].at = app.debounce_ms
    /\ app.outcome = "computed"

\* the position of the first change after position j of a log, or the
\* position after its end
NextChangeAfter(log, j) ==
    LET later == {k \in ChangesIn(log) : k > j}
    IN  IF later = {} THEN Len(log) + 1 ELSE CHOOSE k \in later : \A l \in later : k <= l

\* the changes at positions i..j of a log fall within one window of length d:
\* less than d lies between the first and the last
Burst(log, i, j, d) == i \in ChangesIn(log) /\ j \in ChangesIn(log) /\ i <= j /\ log[j].at - log[i].at < d

\* the passes a burst triggers: those after its first change and before the
\* first change that follows it
PassesOfBurst(log, i, j) == {p \in PassesIn(log) : i < p /\ p < NextChangeAfter(log, j)}

\* C16: a burst of viewport changes whose instants fall within one window of
\* length debounce_ms triggers at most one pass, whatever redraws are
\* interleaved with the changes
C16_BurstTriggersAtMostOnePass ==
    \A i, j \in 1..Len(app.log) :
        Burst(app.log, i, j, app.debounce_ms) => Cardinality(PassesOfBurst(app.log, i, j)) <= 1

\* two changes one tick apart under a debounce of two ticks, then one pass
C16_Witness ==
    /\ app.debounce_ms = 2
    /\ Len(app.log) = 4
    /\ Burst(app.log, 2, 3, app.debounce_ms)
    /\ app.log[3].at > app.log[2].at
    /\ app.log[4].kind = "pass"

\* the frames of a log: each stands directly after the change it follows
FramesIn(log) == {i \in 1..Len(log) : log[i].kind = "frame"}

\* C17, as amended: a recomputation is triggered by the first frame drawn at
\* least debounce_ms after the most recent viewport change: a frame that
\* follows a change without running a pass comes less than debounce_ms after
\* that change
C17_FrameAfterQuiescenceRecomputes ==
    \A f \in FramesIn(app.log) : app.log[f].at - app.log[f - 1].at < app.debounce_ms

\* a frame drawn before the debounce time ran no pass, the frame drawn
\* debounce_ms after the change ran it
C17_Witness ==
    /\ app.debounce_ms > 0
    /\ \E f \in FramesIn(app.log) :
          /\ f < Len(app.log)
          /\ app.log[f + 1].kind = "pass"
          /\ app.log[f + 1].at - app.log[f - 1].at = app.debounce_ms

\* C17, as stated: the first frame after the first viewport change that comes
\* at least debounce_ms after the prior recomputation runs a pass
C17_FrameAfterChangeRecomputes ==
    \A f \in FramesIn(app.log) :
        ~ /\ f >= 3
          /\ app.log[f - 2].kind \in {"init", "pass"}
          /\ app.log[f - 1].at - app.log[f - 2].at >= app.debounce_ms

(***************************************************************************)
(* Specification SpecAppLive: the RenderApp with on-demand rendering only. *)
(* A RedrawRequested event arrives only after request_redraw, which is     *)
(* called by init_window, mark_viewport_changed and reset_viewport and     *)
(* nowhere else; the event loop delivers a requested redraw (weak fairness *)
(* of RedrawOnRequest), the window is created (Resumed) and the clock      *)
(* advances (Tick).  Input events are under no fairness: the user may stop.*)
(***************************************************************************)
RedrawOnRequest ==
    /\ app.window
    /\ app.redraw_requested
    /\ app' = on_redraw_requested([Begin EXCEPT !.redraw_requested = FALSE])
    /\ UNCHANGED otherVars

NextAppLive ==
    \/ Resumed
    \/ Tick
    \/ RedrawOnRequest
    \/ Resized
    \/ MouseWheel
    \/ CursorMoved
    \/ MouseInput
    \/ KeyboardInput
    \/ TouchStarted
    \/ TouchMoved
    \/ TouchEnded

SpecAppLive ==
    /\ InitApp
    /\ [][NextAppLive]_vars
    /\ WF_vars(Resumed)
    /\ WF_vars(Tick)
    /\ WF_vars(RedrawOnRequest)

\* a viewport change has set needs_recompute, the user sends no further
\* input, the window is not minimised and the viewport is within the limits
\* of compute_ca
ChangePendingAtRest ==
    /\ app.window
    /\ app.inputs = MaxInputs
    /\ app.needs_recompute
    /\ ChangesIn(app.log) # {}
    /\ app.window_width > 0 /\ app.window_height > 0
    /\ ~cell_size_too_small(app) /\ ~dimensions_exceeded(app) /\ ~total_exceeded(app)

\* C18: once a viewport change has set needs_recompute and no further input
\* event occurs, a recomputation pass eventually runs and needs_recompute
\* eventually becomes false, redraws occurring only on request
C18_PendingChangeEventuallyRecomputed == ChangePendingAtRest ~> ~app.needs_recompute

\* the bound ViewportBuffer: the buffer, its bind group, the viewport it was
\* computed for and its metadata
Bound(a) == <<a.ca_buffer, a.bind_group, a.buffer_viewport, a.buffer_simulated_width, a.buffer_padding_left>>

\* the step is the handler of an input event
InputStep == app'.inputs = app.inputs + 1

\* C19: every input handler leaves ca_buffer, bind_group, buffer_viewport,
\* buffer_simulated_width and buffer_padding_left unchanged, and a step that
\* changes one of them is a successful compute_ca
C19_BufferStaysBoundBetweenPasses ==
    [][/\ InputStep => Bound(app') = Bound(app)
       /\ Bound(app') # Bound(app) => app'.outcome = "computed" /\ app'.runs = app.runs + 1]_vars

\* after a zoom and a pan the buffer of the first computation is still bound,
\* for the viewport and cell size it was computed with
C19_Witness ==
    /\ app.inputs = MaxInputs
    /\ app.needs_recompute
    /\ app.current_cell_size # DEFAULT_CELL_SIZE
    /\ app.viewport # app.buffer_viewport
    /\ ~is_none(app.ca_buffer)
    /\ unwrap(app.ca_buffer).allocation = 1
    /\ app.bind_group = Some([buffer |-> 1])

\* the step calls compute_ca
ComputeStep == app'.outcome # "none" /\ app'.now = app.now

\* a viewport over one of the four limits: the window, cell size and zoom
\* compute_ca reads
OverLimit(a) ==
    LET visible_cells_x == (a.window_width + a.current_cell_size - 1) \div a.current_cell_size
        visible_cells_y == (a.window_height + a.current_cell_size - 1) \div a.current_cell_size
    IN  \/ visible_cells_x > MAX_CELLS_X
        \/ visible_cells_y > MAX_CELLS_Y
        \/ a.current_cell_size < MIN_CELL_SIZE
        \/ visible_cells_x * 3 * visible_cells_y > MAX_TOTAL_CELLS

\* C20: compute_ca called for a viewport over one of the four limits rejects
\* the pass: run_ca and run_ca_with_cache are not called (no tile is
\* produced, the cache is not accessed, no buffer is allocated) and the bound
\* buffer, its bind group, buffer_viewport and the metadata stay as they were
C20_RejectedPassChangesNothing ==
    [][ComputeStep /\ OverLimit(app') =>
          /\ app'.outcome = "rejected"
          /\ app'.runs = app.runs
          /\ cache' = cache
          /\ Bound(app') = Bound(app)
          /\ app'.needs_recompute = app.needs_recompute]_vars

\* a pass rejected for its total cell count alone, with the buffer of the
\* first computation still bound
C20_Witness ==
    /\ app.outcome = "rejected"
    /\ app.current_cell_size >= MIN_CELL_SIZE
    /\ visible_cells_x_of(app) <= MAX_CELLS_X
    /\ visible_cells_y_of(app) <= MAX_CELLS_Y
    /\ total_cells(app) > MAX_TOTAL_CELLS
    /\ app.runs = 1
    /\ app.bind_group = Some([buffer |-> 1])
    /\ app.needs_recompute

(***************************************************************************)
(* SpecSizes: the 32-bit sizes of one pass.  The viewport is panned down   *)
(* and zoomed; a pass that compute_ca accepts produces the bottom tile row *)
(* of the viewport (compute_tile) and assembles the output buffer          *)
(* (run_ca_with_cache).  The sizes are u32 in the source; the products are *)
(* not formed here, each is compared with the largest u32 by division.     *)
(***************************************************************************)
MaxPanY == 60000
DEFAULT_TILE_SIZE == 256

\* i32::MAX, and whether a * b, or a * b * 4, is a u32 (a, b are u32 below 2^31)
I32_MAX == (2^30 - 1) * 2 + 1
u32_max_div(b) == 2 * (I32_MAX \div b) + ((2 * (I32_MAX % b) + 1) \div b)
u32_mul_fits(a, b) == b <= 1 \/ a <= u32_max_div(b)
u32_mul4_fits(a, b) == b = 0 \/ a <= (2^30 - 1) \div b

\* the sizes compute_tile computes for the tile row tile_y
compute_tile_sizes(tile_y, tile_size) ==
    LET tile_width == tile_size
        tile_height == tile_size
        generation_start == tile_y * tile_height
        generation_end == generation_start + tile_height
        padding == max0(generation_end)
        simulated_width == tile_width + 2 * padding
        total_generations == max0(generation_end)
        buffer_height == total_generations + 1
        tile_gen_offset == max0(tile_y * tile_height)
    IN  [simulated_width |-> simulated_width,
         buffer_height |-> buffer_height,
         tile_gen_offset |-> tile_gen_offset,
         total_cells_fits |-> u32_mul_fits(simulated_width, buffer_height),
         tile_buffer_size_fits |-> u32_mul4_fits(simulated_width, tile_height),
         source_offset_fits |-> u32_mul4_fits(tile_gen_offset, simulated_width)]

\* the sizes run_ca_with_cache computes: the bottom tile row and the output buffer
run_ca_with_cache_sizes(start_generation, iterations, visible_width, tile_size) ==
    LET viewport_y_end == start_generation + iterations
        tile_y_end == div_euclid(viewport_y_end - 1, tile_size)
        total_generations == start_generation + iterations
        padding == total_generations
        simulated_width == visible_width + 2 * padding
        output_height == iterations + 1
    IN  [start_generation |-> start_generation,
         iterations |-> iterations,
         visible_width |-> visible_width,
         tile_y_end |-> tile_y_end,
         tile |-> compute_tile_sizes(tile_y_end, tile_size),
         simulated_width |-> simulated_width,
         output_height |-> output_height,
         output_buffer_size_fits |-> u32_mul4_fits(simulated_width, output_height)]

\* compute_ca on the viewport v: None when a safety limit rejects it
compute_ca_sizes(v) ==
    IF cell_size_too_small(v) \/ dimensions_exceeded(v) \/ total_exceeded(v) THEN None
    ELSE Some(run_ca_with_cache_sizes(max0(v.viewport.offset_y), visible_cells_y_of(v),
                                      visible_cells_x_of(v), v.tile_size))

PanStepsY == {1000, 7000}
SizesCellSizes == {MIN_CELL_SIZE, DEFAULT_CELL_SIZE, 100}

InitSizes ==
    /\ cache = None
    /\ touches = None
    /\ gets = 0
    /\ hist = None
    /\ built = None
    /\ produced = None
    /\ config = None
    /\ call = None
    /\ passes = 0
    /\ web = None
    /\ plan = None
    /\ app = None
    /\ view = None
    /\ sizes = [window_width |-> DEFAULT_WIDTH, window_height |-> DEFAULT_HEIGHT,
                current_cell_size |-> DEFAULT_CELL_SIZE,
                viewport |-> [offset_x |-> -(DEFAULT_WIDTH \div DEFAULT_CELL_SIZE) \div 2, offset_y |-> 0],
                tile_size |-> DEFAULT_TILE_SIZE,
                pass |-> None]

sizesOther == <<cache, touches, gets, hist, built, produced, config, call, passes, plan, app, view, web>>

\* a drag that moves the viewport down by dy cells (CursorMoved)
SizesPan ==
    \E dy \in PanStepsY :
        /\ sizes.viewport.offset_y + dy <= MaxPanY
        /\ sizes' = [sizes EXCEPT !.viewport.offset_y = @ + dy, !.pass = None]
        /\ UNCHANGED sizesOther

\* a zoom to another cell size
SizesZoom ==
    \E c \in SizesCellSizes \ {sizes.current_cell_size} :
        /\ sizes' = [sizes EXCEPT !.current_cell_size = c, !.pass = None]
        /\ UNCHANGED sizesOther

\* the recomputation pass on the current viewport
SizesPass ==
    /\ is_none(sizes.pass)
    /\ compute_ca_sizes(sizes) # None
    /\ sizes' = [sizes EXCEPT !.pass = compute_ca_sizes(sizes)]
    /\ UNCHANGED sizesOther

NextSizes == SizesPan \/ SizesZoom \/ SizesPass

SpecSizes == InitSizes /\ [][NextSizes]_vars

\* C21: for every viewport that compute_ca accepts, every 32-bit product the
\* producer and the assembler compute (simulated_width * rows, and that
\* product * 4) stays below 2^32
C21_PassSizesFitU32 ==
    ~is_none(sizes) /\ ~is_none(sizes.pass) =>
        LET p == unwrap(sizes.pass)
        IN  /\ p.tile.total_cells_fits
            /\ p.tile.tile_buffer_size_fits
            /\ p.tile.source_offset_fits
            /\ p.output_buffer_size_fits

(***************************************************************************)
(* SpecView: the viewport arithmetic of the input handlers.  Positions are *)
(* whole pixels; the offsets, f32 cells in the source, are kept in units   *)
(* of 1 / CELL_UNITS of a cell, every quotient rounded down to that unit.  *)
(* (cursor / window) * (window / cell_size) is taken as cursor / cell_size.*)
(***************************************************************************)
CELL_UNITS == 5040

\* num / den pixels per cell as an offset; a whole number of cells as an offset
px_to_cells(num, den) == (num * CELL_UNITS) \div den
whole_cells(n) == n * CELL_UNITS

\* min_cell_size and max_cell_size of handle_zoom and of the pinch:
\* DEFAULT_CELL_SIZE * ZOOM_MIN, at least 1, and DEFAULT_CELL_SIZE * ZOOM_MAX
min_cell_size == IF DEFAULT_CELL_SIZE \div 10 > 1 THEN DEFAULT_CELL_SIZE \div 10 ELSE 1
max_cell_size == DEFAULT_CELL_SIZE * 50

\* mark_viewport_changed without the clock
view_mark_viewport_changed(v) ==
    [v EXCEPT !.needs_recompute = TRUE, !.last_viewport_change = Some("now")]

\* a zoom that changes the cell size and leaves the offsets as they are
zoom_unanchored(v, new_cell_size, cx, cy, den) ==
    view_mark_viewport_changed([v EXCEPT !.current_cell_size = new_cell_size])

\* the offsets that keep the world position under the point (cx / den, cy / den)
\* in place when the cell size becomes new_cell_size, offset_y clamped at 0
zoom_about(v, new_cell_size, cx, cy, den) ==
    LET old_cell_size == v.current_cell_size
        world_x_at_cursor == v.viewport.offset_x + px_to_cells(cx, den * old_cell_size)
        world_y_at_cursor == v.viewport.offset_y + px_to_cells(cy, den * old_cell_size)
    IN  view_mark_viewport_changed(
            [v EXCEPT !.current_cell_size = new_cell_size,
                      !.viewport = [offset_x |-> world_x_at_cursor - px_to_cells(cx, den * new_cell_size),
                                    offset_y |-> max0(world_y_at_cursor - px_to_cells(cy, den * new_cell_size))]])

\* the zoom ladder of handle_zoom, filtered to [min_cell_size, max_cell_size]
zoom_levels == SelectSeq(wheel_zoom_levels, LAMBDA size : size >= min_cell_size /\ size <= max_cell_size)

\* the ladder index handle_zoom moves to, counted from 1
zoom_new_index(old_cell_size, delta) ==
    LET current_index == zoom_position(zoom_levels, old_cell_size)
    IN  IF delta > 0
        THEN (IF current_index + 1 < Len(zoom_levels) THEN current_index + 1 ELSE Len(zoom_levels))
        ELSE (IF current_index > 1 THEN current_index - 1 ELSE 1)

\* handle_zoom(delta, cursor_x, cursor_y)
view_handle_zoom(v, delta, cursor_x, cursor_y) ==
    LET old_cell_size == v.current_cell_size
        new_cell_size == zoom_levels[zoom_new_index(old_cell_size, delta)]
    IN  IF new_cell_size # old_cell_size
        THEN zoom_about(v, new_cell_size, cursor_x, cursor_y, 1)
        ELSE v

\* window_event, MouseWheel: the zoom about the tracked cursor position
view_mouse_wheel(v, delta) == view_handle_zoom(v, delta, v.cursor_position[1], v.cursor_position[2])

\* the pan of a drag that started at drag.start and now is at (x, y)
view_pan(v, x, y) ==
    LET drag == unwrap(v.drag_state)
        delta_x == x - drag.start_x
        delta_y == y - drag.start_y
        delta_cells_x == px_to_cells(-delta_x, v.current_cell_size)
        delta_cells_y == px_to_cells(-delta_y, v.current_cell_size)
    IN  view_mark_viewport_changed(
            [v EXCEPT !.viewport = [offset_x |-> drag.viewport_at_start.offset_x + delta_cells_x,
                                    offset_y |-> max0(drag.viewport_at_start.offset_y + delta_cells_y)]])

\* window_event, CursorMoved
view_cursor_moved(v, position) ==
    LET tracked == [v EXCEPT !.cursor_position = position]
    IN  IF is_none(v.drag_state) THEN tracked
        ELSE IF unwrap(v.drag_state).active THEN view_pan(tracked, position[1], position[2])
        ELSE tracked

\* DragState { active: true, start_x, start_y, viewport_at_start }
DragState(v, x, y) == Some([active |-> TRUE, start_x |-> x, start_y |-> y, viewport_at_start |-> v.viewport])

\* window_event, MouseInput of the left button
view_mouse_input(v, pressed) ==
    IF pressed
    THEN [v EXCEPT !.drag_state = DragState(v, v.cursor_position[1], v.cursor_position[2])]
    ELSE IF is_none(v.drag_state) THEN v
         ELSE [v EXCEPT !.drag_state = Some([unwrap(@) EXCEPT !.active = FALSE])]

\* a reset that centres the view and keeps the cell size
reset_keeps_cell_size(v) ==
    [v EXCEPT !.viewport = [offset_x |-> -px_to_cells(v.window_width, 2 * v.current_cell_size),
                            offset_y |-> 0],
              !.needs_recompute = TRUE,
              !.last_viewport_change = Some("now")]

\* reset_viewport
view_reset_viewport(v) ==
    LET current_cell_size == DEFAULT_CELL_SIZE
    IN  [v EXCEPT !.current_cell_size = current_cell_size,
                  !.viewport = [offset_x |-> -px_to_cells(v.window_width, 2 * current_cell_size),
                                offset_y |-> 0],
                  !.needs_recompute = TRUE,
                  !.last_viewport_change = Some("now")]

\* window_event, Resized, its first block (web build): before the first
\* viewport change a new width re-centres the view
resized_web(v, physical_size) ==
    LET old_width == v.window_width
        new_width == physical_size[1]
        half_old == px_to_cells(old_width, 2 * v.current_cell_size)
        half_new == px_to_cells(new_width, 2 * v.current_cell_size)
    IN  IF v.wasm /\ is_none(v.last_viewport_change) /\ old_width # new_width
        THEN IF ~v.url_params_applied
             THEN [v EXCEPT !.viewport.offset_x = -half_new]
             ELSE [v EXCEPT !.viewport.offset_x = (@ + half_old) - half_new]
        ELSE v

\* window_event, Resized, the edge detection: old_width and old_height are
\* read from window_width and window_height, which hold the new size already
resized_edges(v, physical_size, new_pos) ==
    LET old_pos == unwrap(v.window_position)
        old_width == v.window_width
        old_height == v.window_height
        new_width == physical_size[1]
        new_height == physical_size[2]
        old_visible_x == px_to_cells(old_width, v.current_cell_size)
        new_visible_x == px_to_cells(new_width, v.current_cell_size)
        old_visible_y == px_to_cells(old_height, v.current_cell_size)
        new_visible_y == px_to_cells(new_height, v.current_cell_size)
        x_done == IF new_pos[1] # old_pos[1]
                  THEN [v EXCEPT !.viewport.offset_x = (@ + old_visible_x) - new_visible_x]
                  ELSE v
    IN  IF new_pos[2] # old_pos[2]
        THEN [x_done EXCEPT !.viewport.offset_y = max0((@ + old_visible_y) - new_visible_y)]
        ELSE x_done

\* window_event, Resized; outer_position is None when the host reports none
view_resized(v, physical_size, outer_position) ==
    LET sized == [resized_web(v, physical_size) EXCEPT !.window_width = physical_size[1],
                                                       !.window_height = physical_size[2]]
        anchored == IF is_none(sized.window_position) THEN sized
                    ELSE resized_edges(sized, physical_size, unwrap(outer_position))
    IN  IF physical_size[1] = 0 \/ physical_size[2] = 0 THEN sized
        ELSE IF is_none(outer_position) THEN view_mark_viewport_changed(sized)
        ELSE view_mark_viewport_changed([anchored EXCEPT !.window_position = outer_position])

\* sqrt(dx * dx + dy * dy), rounded down to a whole pixel
distance(dx, dy) ==
    LET s == dx * dx + dy * dy
        reach == (IF dx < 0 THEN -dx ELSE dx) + (IF dy < 0 THEN -dy ELSE dy)
    IN  CHOOSE d \in 0..reach : d * d <= s /\ s < (d + 1) * (d + 1)

\* (initial_cell_size * (current_distance / initial_distance)).max(1.0).min(500.0) as u32:
\* a division by zero gives infinity, 0 / 0 gives NaN, which max(1.0) turns into 1
pinch_cell_size(initial_cell_size, current_distance, initial_distance) ==
    IF initial_distance = 0 THEN (IF current_distance = 0 THEN 1 ELSE 500)
    ELSE LET scaled == (initial_cell_size * current_distance) \div initial_distance
         IN  IF scaled < 1 THEN 1 ELSE IF scaled > 500 THEN 500 ELSE scaled

clamp(x, lo, hi) == IF x < lo THEN lo ELSE IF x > hi THEN hi ELSE x

\* the zoom levels of the pinch, filtered to [min_cell_size, max_cell_size]
pinch_levels == SelectSeq(pinch_zoom_levels, LAMBDA z : z >= min_cell_size /\ z <= max_cell_size)

\* min_by_key(|level - clamped_cell_size|): the first level at the least distance
nearest_level(levels, clamped_cell_size) ==
    LET gap(i) == IF levels[i] > clamped_cell_size THEN levels[i] - clamped_cell_size
                  ELSE clamped_cell_size - levels[i]
        i == CHOOSE k \in 1..Len(levels) :
                 /\ \A j \in 1..Len(levels) : gap(k) <= gap(j)
                 /\ \A j \in 1..(k - 1) : gap(j) > gap(k)
    IN  levels[i]

\* handle_touch, TouchPhase::Started
view_touch_started(v, id, x, y) ==
    IF is_none(v.touch_state.touch1)
    THEN [v EXCEPT !.touch_state.touch1 = Some(<<id, x, y>>),
                   !.touch_state.single_touch = Some(<<id, x, y>>),
                   !.drag_state = DragState(v, x, y)]
    ELSE IF is_none(v.touch_state.touch2)
    THEN LET t1 == unwrap(v.touch_state.touch1)
         IN  [v EXCEPT !.touch_state.touch2 = Some(<<id, x, y>>),
                       !.touch_state.single_touch = None,
                       !.drag_state = None,
                       !.touch_state.initial_distance = Some(distance(x - t1[2], y - t1[3])),
                       !.touch_state.initial_cell_size = Some(v.current_cell_size),
                       !.touch_state.viewport_at_pinch_start = Some(v.viewport)]
    ELSE v

\* a stored touch, moved to (x, y) when it is the touch id
touch_at(stored, id, x, y) == IF unwrap(stored)[1] = id THEN Some(<<id, x, y>>) ELSE stored

\* handle_touch, TouchPhase::Moved with two touches tracked: the pinch
pinch_moved(v, id, x, y) ==
    LET moved == [v EXCEPT !.touch_state.touch1 = touch_at(@, id, x, y),
                           !.touch_state.touch2 = touch_at(@, id, x, y)]
        t1 == unwrap(moved.touch_state.touch1)
        t2 == unwrap(moved.touch_state.touch2)
        current_distance == distance(t2[2] - t1[2], t2[3] - t1[3])
        new_cell_size == pinch_cell_size(unwrap(v.touch_state.initial_cell_size), current_distance,
                                         unwrap(v.touch_state.initial_distance))
        clamped_cell_size == clamp(new_cell_size, min_cell_size, max_cell_size)
        level == nearest_level(pinch_levels, clamped_cell_size)
    IN  IF is_none(v.touch_state.initial_distance) \/ is_none(v.touch_state.initial_cell_size)
           \/ is_none(v.touch_state.viewport_at_pinch_start)
        THEN moved
        ELSE IF level # v.current_cell_size
        THEN zoom_about(moved, level, t1[2] + t2[2], t1[3] + t2[3], 2)
        ELSE moved

\* handle_touch, TouchPhase::Moved
view_touch_moved(v, id, x, y) ==
    IF ~is_none(v.touch_state.single_touch)
    THEN IF unwrap(v.touch_state.single_touch)[1] = id /\ ~is_none(v.drag_state)
         THEN view_pan(v, x, y)
         ELSE v
    ELSE IF ~is_none(v.touch_state.touch1) /\ ~is_none(v.touch_state.touch2)
    THEN pinch_moved(v, id, x, y)
    ELSE v

\* handle_touch, TouchPhase::Ended or Cancelled
view_touch_ended(v, id) ==
    LET s0 == v.touch_state
        s1 == IF ~is_none(s0.touch1) /\ unwrap(s0.touch1)[1] = id
              THEN [s0 EXCEPT !.touch1 = s0.touch2, !.touch2 = None]
              ELSE s0
        s2 == IF ~is_none(s1.touch2) /\ unwrap(s1.touch2)[1] = id
              THEN [s1 EXCEPT !.touch2 = None]
              ELSE s1
        single_ended == ~is_none(s2.single_touch) /\ unwrap(s2.single_touch)[1] = id
        s3 == IF single_ended THEN [s2 EXCEPT !.single_touch = None] ELSE s2
        drag3 == IF single_ended THEN None ELSE v.drag_state
        s4 == IF is_none(s3.touch1)
              THEN [s3 EXCEPT !.initial_distance = None, !.initial_cell_size = None,
                              !.viewport_at_pinch_start = None]
              ELSE s3
    IN  IF ~is_none(s4.touch1) /\ is_none(s4.touch2)
        THEN LET t == unwrap(s4.touch1)
             IN  [v EXCEPT !.touch_state = [s4 EXCEPT !.single_touch = Some(t)],
                           !.drag_state = DragState(v, t[2], t[3])]
        ELSE [v EXCEPT !.touch_state = s4, !.drag_state = drag3]

\* init_window: on the web build the initial viewport set from the URL
\* (centre x, offset_y, cell size) is applied as it is; then the first pass
\* compute_ca on the view: a rejected pass returns before the planner is
\* called; buffer_cell_size is history, the cell size the buffer was computed with
view_rejected(v) == cell_size_too_small(v) \/ dimensions_exceeded(v) \/ total_exceeded(v)
view_compute_ca(v) ==
    IF view_rejected(v) THEN v
    ELSE [v EXCEPT !.buffer_viewport = v.viewport,
                   !.buffer_cell_size = Some(v.current_cell_size),
                   !.needs_recompute = FALSE]

view_init_window(v) ==
    LET applied == IF v.wasm /\ ~is_none(v.initial_viewport)
                   THEN LET center_x == unwrap(v.initial_viewport)[1]
                            initial_y == unwrap(v.initial_viewport)[2]
                            initial_cell_size == unwrap(v.initial_viewport)[3]
                        IN  [v EXCEPT !.viewport = [offset_x |-> whole_cells(center_x)
                                                                 - px_to_cells(v.window_width, 2 * initial_cell_size),
                                                    offset_y |-> whole_cells(initial_y)],
                                      !.current_cell_size = initial_cell_size,
                                      !.url_params_applied = TRUE,
                                      !.initial_viewport = None]
                   ELSE v
    IN  view_compute_ca([applied EXCEPT !.window = TRUE])

\* the inputs of a behaviour: at most MaxViewInputs events; cursor and touch
\* positions; resize reports (a dragged bottom edge, a dragged left edge, a
\* dragged top edge, a minimised window) with the outer position of the
\* window; the initial viewports a URL can set (centre x, offset_y, cell size)
MaxViewInputs == 4
CursorPoints == {<<200, 900>>, <<900, 300>>}
TouchPoints == {<<400, 400>>, <<700, 400>>, <<400, 800>>}
WheelDeltas == {1, -1}
ResizeEvents ==
    {[size |-> <<DEFAULT_WIDTH, DEFAULT_HEIGHT + 20>>, pos |-> Some(<<100, 100>>)],
     [size |-> <<DEFAULT_WIDTH + 40, DEFAULT_HEIGHT + 20>>, pos |-> Some(<<60, 100>>)],
     [size |-> <<DEFAULT_WIDTH, DEFAULT_HEIGHT + 60>>, pos |-> Some(<<100, 60>>)],
     [size |-> <<0, 0>>, pos |-> Some(<<100, 100>>)]}
InitialViewports == {None, Some(<<0, -5, DEFAULT_CELL_SIZE>>), Some(<<3, 7, 11>>)}

\* RenderApp::new for the default Config, with the fingers on the screen and
\* the last handler as history
RenderView_new(wasm, initial_viewport) ==
    [wasm |-> wasm,
     initial_viewport |-> initial_viewport,
     window |-> FALSE,
     window_width |-> DEFAULT_WIDTH,
     window_height |-> DEFAULT_HEIGHT,
     current_cell_size |-> DEFAULT_CELL_SIZE,
     viewport |-> [offset_x |-> -px_to_cells(DEFAULT_WIDTH, 2 * DEFAULT_CELL_SIZE), offset_y |-> 0],
     buffer_viewport |-> [offset_x |-> 0, offset_y |-> 0],
     buffer_cell_size |-> None,
     cursor_position |-> <<DEFAULT_WIDTH \div 2, DEFAULT_HEIGHT \div 2>>,
     drag_state |-> None,
     touch_state |-> [single_touch |-> None, touch1 |-> None, touch2 |-> None,
                      initial_distance |-> None, initial_cell_size |-> None,
                      viewport_at_pinch_start |-> None],
     window_position |-> None,
     url_params_applied |-> FALSE,
     last_viewport_change |-> None,
     needs_recompute |-> TRUE,
     fingers |-> [id \in TouchIds |-> None],
     inputs |-> 0,
     last |-> None]

InitView ==
    /\ cache = None
    /\ touches = None
    /\ gets = 0
    /\ hist = None
    /\ built = None
    /\ produced = None
    /\ config = None
    /\ call = None
    /\ passes = 0
    /\ web = None
    /\ plan = None
    /\ app = None
    /\ sizes = None
    /\ \E wasm \in BOOLEAN : \E initial_viewport \in InitialViewports :
           /\ (~wasm => is_none(initial_viewport))
           /\ view = RenderView_new(wasm, initial_viewport)

viewOther == <<cache, touches, gets, hist, built, produced, config, call, passes, plan, app, sizes, web>>

ViewActive == view.window /\ view.inputs < MaxViewInputs

\* the state before a handler, kept as history with the handler's name and input
ViewBefore == [view EXCEPT !.last = None]
ViewStep(op, input, post) ==
    /\ view' = [post EXCEPT !.inputs = @ + 1,
                            !.last = Some([op |-> op, input |-> input, pre |-> ViewBefore])]
    /\ UNCHANGED viewOther

\* resumed: init_window
ViewResumed ==
    /\ ~view.window
    /\ view' = [view_init_window(view) EXCEPT !.last = Some([op |-> "init", input |-> None, pre |-> ViewBefore])]
    /\ UNCHANGED viewOther

ViewCursorMoved ==
    /\ ViewActive
    /\ \E position \in CursorPoints \ {view.cursor_position} :
           ViewStep("cursor", position, view_cursor_moved(view, position))

ViewMouseInput ==
    /\ ViewActive
    /\ \E pressed \in BOOLEAN :
           /\ (~pressed => ~is_none(view.drag_state))
           /\ ViewStep("mouse", pressed, view_mouse_input(view, pressed))

ViewMouseWheel ==
    /\ ViewActive
    /\ \E delta \in WheelDeltas : ViewStep("wheel", delta, view_mouse_wheel(view, delta))

\* KeyboardInput of the key 0, or the reset requested from the page
ViewReset ==
    /\ ViewActive
    /\ ViewStep("reset", None, view_reset_viewport(view))

ViewResized ==
    /\ ViewActive
    /\ \E e \in ResizeEvents :
           /\ e.size # <<view.window_width, view.window_height>>
           /\ ViewStep("resized", e, view_resized(view, e.size, e.pos))

\* the positions no finger is on
FreePoints == TouchPoints \ {unwrap(view.fingers[id]) : id \in {i \in TouchIds : ~is_none(view.fingers[i])}}

ViewTouchStarted ==
    /\ ViewActive
    /\ \E id \in TouchIds : \E p \in FreePoints :
           /\ is_none(view.fingers[id])
           /\ \A j \in TouchIds : j < id => ~is_none(view.fingers[j])
           /\ ViewStep("touch_started", <<id, p>>,
                       [view_touch_started(view, id, p[1], p[2]) EXCEPT !.fingers[id] = Some(p)])

ViewTouchMoved ==
    /\ ViewActive
    /\ \E id \in TouchIds : \E p \in FreePoints :
           /\ ~is_none(view.fingers[id])
           /\ ViewStep("touch_moved", <<id, p>>,
                       [view_touch_moved(view, id, p[1], p[2]) EXCEPT !.fingers[id] = Some(p)])

ViewTouchEnded ==
    /\ ViewActive
    /\ \E id \in TouchIds :
           /\ ~is_none(view.fingers[id])
           /\ ViewStep("touch_ended", <<id, unwrap(view.fingers[id])>>,
                       [view_touch_ended(view, id) EXCEPT !.fingers[id] = None])

NextView ==
    \/ ViewResumed
    \/ ViewCursorMoved
    \/ ViewMouseInput
    \/ ViewMouseWheel
    \/ ViewReset
    \/ ViewResized
    \/ ViewTouchStarted
    \/ ViewTouchMoved
    \/ ViewTouchEnded

SpecView == InitView /\ [][NextView]_vars

\* C22: in every reachable state the stored viewport.offset_y is >= 0
C22_OffsetYNeverNegative ==
    ~is_none(view) => view.viewport.offset_y >= 0

\* the cell sizes on the ladder of the wheel zoom
OnWheelLadder(size) == \E i \in 1..Len(zoom_levels) : zoom_levels[i] = size

\* C23: in every reachable state cell_size lies in [min_cell_size,
\* max_cell_size] and is a member of the zoom ladder of the wheel zoom
C23_CellSizeOnTheLadder ==
    ~is_none(view) =>
        /\ view.current_cell_size >= min_cell_size
        /\ view.current_cell_size <= max_cell_size
        /\ OnWheelLadder(view.current_cell_size)

\* the ladder entries above and below a cell size; the handler that ran last
LadderAbove(size) == {zoom_levels[i] : i \in {j \in 1..Len(zoom_levels) : zoom_levels[j] > size}}
LadderBelow(size) == {zoom_levels[i] : i \in {j \in 1..Len(zoom_levels) : zoom_levels[j] < size}}
NextLarger(size) == IF LadderAbove(size) = {} THEN size ELSE CHOOSE e \in LadderAbove(size) : \A f \in LadderAbove(size) : e <= f
NextSmaller(size) == IF LadderBelow(size) = {} THEN size ELSE CHOOSE e \in LadderBelow(size) : \A f \in LadderBelow(size) : e >= f
LastOp == IF is_none(view) THEN "none" ELSE IF is_none(view.last) THEN "none" ELSE unwrap(view.last).op
LastInput == unwrap(view.last).input
Pre == unwrap(view.last).pre

\* C24: one wheel tick advances exactly one step on the zoom ladder: a positive
\* delta sets cell_size to the next larger ladder entry, a negative one to the
\* next smaller, with no change at the end of the ladder
C24_WheelTickIsOneLadderStep ==
    LastOp = "wheel" =>
        IF LastInput > 0
        THEN view.current_cell_size = NextLarger(Pre.current_cell_size)
        ELSE view.current_cell_size = NextSmaller(Pre.current_cell_size)

\* the world position under the cursor, in offset units, and the distance of two offsets
world_x_under(v, cursor) == v.viewport.offset_x + px_to_cells(cursor[1], v.current_cell_size)
world_y_under(v, cursor) == v.viewport.offset_y + px_to_cells(cursor[2], v.current_cell_size)
apart(a, b) == IF a > b THEN a - b ELSE b - a

\* a wheel step that changed the cell size; the offset_y it asks for before the clamp
ZoomStep == LastOp = "wheel" /\ view.current_cell_size # Pre.current_cell_size
unclamped_offset_y ==
    world_y_under(Pre, Pre.cursor_position) - px_to_cells(Pre.cursor_position[2], view.current_cell_size)

\* C25 as stated: after a wheel zoom step the world cell under the cursor is
\* the one before the zoom, within 1 cell, in x and in y, for every viewport
C25_CursorCellKeptEverywhere ==
    ZoomStep =>
        /\ apart(world_x_under(view, view.cursor_position), world_x_under(Pre, Pre.cursor_position)) <= CELL_UNITS
        /\ apart(world_y_under(view, view.cursor_position), world_y_under(Pre, Pre.cursor_position)) <= CELL_UNITS

\* C25 amended: after a wheel zoom step the world cell under the cursor is the
\* one before the zoom, within 1 cell, in x always and in y whenever the
\* offset_y that keeps it is not negative; otherwise offset_y is stored as 0
C25_CursorCellKeptUnlessClamped ==
    ZoomStep =>
        /\ view.cursor_position = Pre.cursor_position
        /\ apart(world_x_under(view, view.cursor_position), world_x_under(Pre, Pre.cursor_position)) <= CELL_UNITS
        /\ IF unclamped_offset_y >= 0
           THEN apart(world_y_under(view, view.cursor_position), world_y_under(Pre, Pre.cursor_position)) <= CELL_UNITS
           ELSE view.viewport.offset_y = 0

\* a zoom step away from the top and off the screen centre, and one that is clamped
C25_Witness ==
    /\ ZoomStep
    /\ unclamped_offset_y > 0
    /\ view.viewport.offset_x # Pre.viewport.offset_x
    /\ view.viewport.offset_y # Pre.viewport.offset_y

\* two touches tracked before the last event; the finger that stays when one of them ends
PinchBefore == ~is_none(Pre.touch_state.touch1) /\ ~is_none(Pre.touch_state.touch2)
Remaining == CHOOSE id \in TouchIds : id # LastInput[1]

\* single_touch set implies touch2 unset
SingleTouchExcludesPinch ==
    ~is_none(view) => (~is_none(view.touch_state.single_touch) => is_none(view.touch_state.touch2))

\* while two touches are tracked a touch movement changes the viewport only with the cell size
PinchDoesNotPan ==
    LastOp = "touch_moved" /\ PinchBefore /\ view.current_cell_size = Pre.current_cell_size
        => view.viewport = Pre.viewport

\* when one of two touches ends, the pan of the other starts at the viewport
\* and at the position of that touch at that moment
PanResumesAnchored ==
    LastOp = "touch_ended" /\ PinchBefore =>
        /\ ~is_none(view.touch_state.single_touch)
        /\ unwrap(view.touch_state.single_touch)[1] = Remaining
        /\ ~is_none(view.drag_state)
        /\ unwrap(view.drag_state).viewport_at_start = view.viewport
        /\ <<unwrap(view.drag_state).start_x, unwrap(view.drag_state).start_y>> = unwrap(view.fingers[Remaining])

\* C26: while two touches are tracked no touch movement pans the viewport
\* (single_touch set implies touch2 unset), and when one of the two touches
\* ends the pan resumes for the remaining touch, anchored at the viewport and
\* the touch position of that moment
C26_PinchSuspendsPanAndPanResumes ==
    /\ SingleTouchExcludesPinch
    /\ PinchDoesNotPan
    /\ PanResumesAnchored

\* C27: a reset, issued in any state, sets cell_size to the default, offset_y
\* to 0 and offset_x to -(window_width / cell_size) / 2, so that world cell 0
\* is horizontally centred, and marks the viewport as needing recomputation
C27_ResetRestoresTheDefaultView ==
    LastOp = "reset" =>
        /\ view.current_cell_size = DEFAULT_CELL_SIZE
        /\ view.viewport.offset_y = 0
        /\ 2 * DEFAULT_CELL_SIZE * view.viewport.offset_x = -(view.window_width * CELL_UNITS)
        /\ view.viewport.offset_x + px_to_cells(view.window_width, 2 * view.current_cell_size) = 0
        /\ view.needs_recompute

\* a reset of a zoomed, panned view in a resized window, and one right after the first pass
C27_Witness ==
    /\ LastOp = "reset"
    /\ Pre.current_cell_size # DEFAULT_CELL_SIZE
    /\ Pre.viewport.offset_y > 0
    /\ Pre.viewport.offset_x # view.viewport.offset_x
    /\ view.window_width # DEFAULT_WIDTH
    /\ view.window_width > 0

\* a resize report with the window position known before and after, and a window
EdgeStep ==
    /\ LastOp = "resized"
    /\ ~is_none(Pre.window_position)
    /\ ~is_none(LastInput.pos)
    /\ LastInput.size[1] > 0
    /\ LastInput.size[2] > 0
LeftMoved == unwrap(LastInput.pos)[1] # unwrap(Pre.window_position)[1]
TopMoved == unwrap(LastInput.pos)[2] # unwrap(Pre.window_position)[2]

\* the world x at the right edge and the world generation at the bottom edge
right_edge(v) == v.viewport.offset_x + px_to_cells(v.window_width, v.current_cell_size)
bottom_edge(v) == v.viewport.offset_y + px_to_cells(v.window_height, v.current_cell_size)

\* C28: when a resize is reported with a moved top-left corner the opposite edge
\* stays anchored: the world x at the right edge if the left edge moved, the
\* world generation at the bottom edge if the top edge moved, unless that would
\* make offset_y negative
C28_ResizeAnchorsOppositeEdge ==
    EdgeStep =>
        /\ (LeftMoved => right_edge(view) = right_edge(Pre))
        /\ (TopMoved /\ bottom_edge(Pre) - px_to_cells(view.window_height, view.current_cell_size) >= 0
               => bottom_edge(view) = bottom_edge(Pre))

(***************************************************************************)
(* SpecApp: the minimised window.                                          *)
(***************************************************************************)
\* the window has a zero dimension; the step handles an event (the clock stands)
Minimized(a) == a.window_width = 0 \/ a.window_height = 0
EventStep == app'.now = app.now

validate_first_error(c) ==
    IF ~is_none(c.initial_state) /\ unwrap(c.initial_state) # <<>>
       /\ ~(\A i \in 1..Len(unwrap(c.initial_state)) : unwrap(c.initial_state)[i] \in {"0", "1"})
    THEN <<"initial_state">>
    ELSE IF c.width < 500 THEN <<"width_min">>
    ELSE IF c.width > 8192 THEN <<"width_max">>
    ELSE IF c.height < 500 THEN <<"height_min">>
    ELSE IF c.height > 8192 THEN <<"height_max">>
    ELSE IF c.cache_tiles > 256 THEN <<"cache_tiles_max">>
    ELSE IF c.tile_size < 64 THEN <<"tile_size_min">>
    ELSE IF c.tile_size > 1024 THEN <<"tile_size_max">>
    ELSE IF c.debounce_ms > 5000 THEN <<"debounce_ms_max">>
    ELSE <<>>

\* Config::validate: the list of errors, empty for Ok(())
validate(c) ==
    LET state_bad == ~is_none(c.initial_state) /\ unwrap(c.initial_state) # <<>>
                     /\ ~(\A i \in 1..Len(unwrap(c.initial_state)) : unwrap(c.initial_state)[i] \in {"0", "1"})
        push(errors, test, error) == IF test THEN Append(errors, error) ELSE errors
        e1 == push(<<>>, state_bad, "initial_state")
        e2 == push(e1, c.width < 500, "width_min")
        e3 == push(e2, c.width > 8192, "width_max")
        e4 == push(e3, c.height < 500, "height_min")
        e5 == push(e4, c.height > 8192, "height_max")
        e6 == push(e5, c.cache_tiles > 256, "cache_tiles_max")
        e7 == push(e6, c.tile_size < 64, "tile_size_min")
        e8 == push(e7, c.tile_size > 1024, "tile_size_max")
        e9 == push(e8, c.tile_size = 0, "tile_size_zero")
    IN  push(e9, c.debounce_ms > 5000, "debounce_ms_max")

\* the command lines of the model: values at and next to every bound
ConfigStates == {None, Some(<<>>), Some(<<"0", "1", "1">>), Some(<<"1", "2">>)}
ConfigSides == {499, 500, 8192, 8193}
ConfigCacheTiles == {0, 256, 257}
ConfigTileSizes == {0, 63, 64, 1024, 1025}
ConfigDebounces == {0, 5000, 5001}

InitConfig ==
    /\ cache = None
    /\ touches = None
    /\ gets = 0
    /\ hist = None
    /\ built = None
    /\ produced = None
    /\ call = None
    /\ passes = 0
    /\ web = None
    /\ plan = None
    /\ app = None
    /\ sizes = None
    /\ view = None
    /\ \E initial_state \in ConfigStates, width \in ConfigSides, height \in ConfigSides,
          cache_tiles \in ConfigCacheTiles, tile_size \in ConfigTileSizes, debounce_ms \in ConfigDebounces :
           config = [rule |-> DEFAULT_RULE, initial_state |-> initial_state, width |-> width,
                     height |-> height, debounce_ms |-> debounce_ms, fullscreen |-> FALSE,
                     cache_tiles |-> cache_tiles, tile_size |-> tile_size,
                     phase |-> "parsed", errors |-> None, exit_code |-> None,
                     device |-> FALSE, window |-> FALSE]

configOther == <<cache, touches, gets, hist, built, produced, call, passes, plan, app, sizes, view, web>>

\* main: validate the configuration; on Err print the errors and exit(1)
MainValidate ==
    /\ config.phase = "parsed"
    /\ LET errors == validate(config)
       IN  config' = IF errors = <<>>
                     THEN [config EXCEPT !.phase = "validated", !.errors = Some(errors)]
                     ELSE [config EXCEPT !.phase = "exited", !.errors = Some(errors), !.exit_code = Some(1)]
    /\ UNCHANGED configOther

\* main: the event loop and RenderApp::new, which requests the device
MainCreateApp ==
    /\ config.phase = "validated"
    /\ config' = [config EXCEPT !.phase = "running", !.device = TRUE]
    /\ UNCHANGED configOther

\* resumed: init_window creates the window
MainCreateWindow ==
    /\ config.phase = "running"
    /\ ~config.window
    /\ config' = [config EXCEPT !.window = TRUE]
    /\ UNCHANGED configOther

NextConfig == MainValidate \/ MainCreateApp \/ MainCreateWindow

SpecConfig == InitConfig /\ [][NextConfig]_vars

\* the bounds as stated: initial_state absent, empty or binary; width and
\* height in 500..8192; cache_tiles <= 256; tile_size in 64..1024; debounce_ms <= 5000
StateOk(c) == is_none(c.initial_state) \/ unwrap(c.initial_state) \in Seq({"0", "1"})
ViolatedBounds(c) ==
    {b \in {"initial_state", "width_min", "width_max", "height_min", "height_max", "cache_tiles_max",
            "tile_size_min", "tile_size_max", "debounce_ms_max"} :
        \/ b = "initial_state" /\ ~StateOk(c)
        \/ b = "width_min" /\ c.width < 500
        \/ b = "width_max" /\ c.width > 8192
        \/ b = "height_min" /\ c.height < 500
        \/ b = "height_max" /\ c.height > 8192
        \/ b = "cache_tiles_max" /\ c.cache_tiles > 256
        \/ b = "tile_size_min" /\ c.tile_size < 64
        \/ b = "tile_size_max" /\ c.tile_size > 1024
        \/ b = "debounce_ms_max" /\ c.debounce_ms > 5000}
Reported(errors) == {errors[i] : i \in 1..Len(errors)}

\* C30: validate returns Ok exactly when every bound holds; otherwise Err with
\* a non-empty list holding an error for every violated bound; and the caller
\* then aborts startup before any window or device is created
C30_ValidateReportsEveryViolation ==
    ~is_none(config) /\ ~is_none(config.errors) =>
        LET errors == unwrap(config.errors)
        IN  /\ (errors = <<>>) <=> (ViolatedBounds(config) = {})
            /\ ViolatedBounds(config) \subseteq Reported(errors)
            /\ errors # <<>> => /\ config.phase = "exited"
                                /\ config.exit_code = Some(1)
                                /\ ~config.device
                                /\ ~config.window
            /\ config.device \/ config.window => errors = <<>>

\* a configuration that violates four bounds at once and was refused, and a valid one that runs
C30_Witness ==
    /\ ~is_none(config)
    /\ config.phase = "exited"
    /\ config.width = 499
    /\ config.height = 8193
    /\ config.tile_size = 1025
    /\ config.debounce_ms = 5001
    /\ Len(unwrap(config.errors)) = 4

(***************************************************************************)
(* SpecStart: the cells a pass starts at.  The viewport is moved with the  *)
(* mouse (drag, wheel) as in SpecView; a frame drawn after the debounce    *)
(* time runs check_debounce_and_recompute, whose compute_ca converts the   *)
(* offsets to the whole cells it hands to run_ca_with_cache.               *)
(***************************************************************************)

\* offset as i32, offset as u32: the casts drop the fraction (round toward 0)
as_i32(offset) == IF offset >= 0 THEN offset \div CELL_UNITS ELSE -((-offset) \div CELL_UNITS)
as_u32(offset) == IF offset >= 0 THEN offset \div CELL_UNITS ELSE 0

\* the greatest whole number of cells not above the offset
floor_cells(offset) == offset \div CELL_UNITS

\* compute_ca, the start cells: start_generation and horizontal_offset, and
\* the viewport_x_start and viewport_y_start run_ca_with_cache takes from them
planner_start(v) ==
    LET clamped_offset_y == IF v.viewport.offset_y > 0 THEN v.viewport.offset_y ELSE 0
        start_generation == as_u32(clamped_offset_y)
        horizontal_offset == as_i32(v.viewport.offset_x)
    IN  [start_generation |-> start_generation,
         horizontal_offset |-> horizontal_offset,
         viewport_x_start |-> horizontal_offset,
         viewport_y_start |-> start_generation]


\* check_debounce_and_recompute when the debounce time has passed
view_check_debounce_and_recompute(v) ==
    IF is_none(v.last_viewport_change) THEN v
    ELSE IF v.needs_recompute THEN [view_compute_ca(v) EXCEPT !.last_viewport_change = None]
         ELSE v

\* RedrawRequested of a frame drawn when the debounce time has passed:
\* check_debounce_and_recompute
ViewRedrawPass ==
    /\ view.window
    /\ view.window_width # 0 /\ view.window_height # 0
    /\ ~is_none(view.last_viewport_change)
    /\ view.needs_recompute
    /\ view' = [view_check_debounce_and_recompute(view) EXCEPT
                    !.last = Some([op |-> IF view_rejected(view) THEN "rejected" ELSE "pass",
                                   input |-> planner_start(view),
                                   pre |-> ViewBefore])]
    /\ UNCHANGED viewOther

NextStart ==
    \/ ViewResumed
    \/ ViewCursorMoved
    \/ ViewMouseInput
    \/ ViewMouseWheel
    \/ ViewRedrawPass

SpecStart == InitView /\ [][NextStart]_vars

\* C31: the viewport_x_start of a pass is floor(offset_x), also for a negative
\* offset with a fraction, and its viewport_y_start is max(0, floor(offset_y))
C31_StartCellsAreFloors ==
    LastOp = "pass" =>
        /\ LastInput.viewport_x_start = floor_cells(Pre.viewport.offset_x)
        /\ LastInput.viewport_y_start = max0(floor_cells(Pre.viewport.offset_y))

\* the vertical half of C31, and the horizontal half for offsets that are
\* not negative
C31_StartRowIsFloor ==
    LastOp = "pass" =>
        /\ LastInput.viewport_y_start = max0(floor_cells(Pre.viewport.offset_y))
        /\ (Pre.viewport.offset_x >= 0 =>
                LastInput.viewport_x_start = floor_cells(Pre.viewport.offset_x))

\* the words copied by the first k rows of a pass
RECURSIVE words_copied(_, _)
words_copied(copies, k) == IF k = 0 THEN 0 ELSE words_copied(copies, k - 1) + copies[k].copy_size

rows_written_before(params, k) == {0} \cup {params[j].current_row + 1 : j \in 1..(k - 1)}

SubmittedAt(kind, key) ==
    {k \in 1..Len(unwrap(call).submitted) :
        unwrap(call).submitted[k].kind = kind /\ unwrap(call).submitted[k].key = key}

\* the positions of the assembly submissions of a pass
AssemblyAt == {k \in 1..Len(unwrap(call).submitted) : unwrap(call).submitted[k].kind = "assembly"}

\* the keys of the tiles produced in the pass
ProducedInPass == {unwrap(call).submitted[k].key : k \in {j \in 1..Len(unwrap(call).submitted) :
                                                           unwrap(call).submitted[j].kind = "dispatches"}}

\* C34: in one pass the dispatches of every tile produced in it are submitted
\* before its slice copy, and the slice copy before the one submission of the
\* assembly copies; every tile the assembly copies read was sliced earlier in
\* the pass or was in the cache when the pass began
C34_SubmissionsInOrder ==
    ~is_none(call) =>
        /\ Cardinality(AssemblyAt) <= 1
        /\ (~unwrap(call).panicked => Cardinality(AssemblyAt) = 1)
        /\ \A key \in ProducedInPass :
              /\ Cardinality(SubmittedAt("dispatches", key)) = 1
              /\ Cardinality(SubmittedAt("slice", key)) = 1
              /\ \A d \in SubmittedAt("dispatches", key), s \in SubmittedAt("slice", key) :
                    /\ d < s
                    /\ \A a \in AssemblyAt : s < a
        /\ \A a \in AssemblyAt :
              /\ a = Len(unwrap(call).submitted)
              /\ \A key \in unwrap(call).submitted[a].key :
                    \/ \E s \in SubmittedAt("slice", key) : s < a
                    \/ key \in DOMAIN unwrap(call).before.tiles

\* C34 witness: a completed pass that produced two tiles and whose assembly
\* copies read both of them
C34_Witness ==
    /\ ~is_none(call)
    /\ ~unwrap(call).panicked
    /\ Cardinality(ProducedInPass) = 2
    /\ Len(unwrap(call).submitted) = 5
    /\ unwrap(call).submitted[5].key = ProducedInPass

(***************************************************************************)
(* SpecReset: the reset requested from the page (web build).  The page     *)
(* calls web::reset_viewport, which stores true in RESET_VIEWPORT_REQUESTED*)
(* (an AtomicBool, SeqCst); RedrawRequested loads the flag, calls          *)
(* reset_viewport and stores false.  The load and the store are two atomic *)
(* operations: a call of the page from another thread can take place       *)
(* between any two of them, and the handler is modelled in these steps.    *)
(* The wheel moves the view away from the default between redraws;         *)
(* debounce_ms is 0 on the web build, so every redraw runs the pass that   *)
(* is due.                                                                 *)
(*                                                                         *)
(* web.pc is the position of the handler: "idle" between events, "loaded"  *)
(* after a load that read true, "reset" after reset_viewport.  History:    *)
(* web.requests counts the calls of the page, web.unserved holds while a   *)
(* call was made and no reset_viewport has run since.                      *)
(***************************************************************************)
MaxRequests == 2

InitReset ==
    /\ cache = None
    /\ touches = None
    /\ gets = 0
    /\ hist = None
    /\ built = None
    /\ produced = None
    /\ config = None
    /\ call = None
    /\ passes = 0
    /\ plan = None
    /\ app = None
    /\ sizes = None
    /\ \E initial_viewport \in InitialViewports : view = RenderView_new(TRUE, initial_viewport)
    /\ web = [RESET_VIEWPORT_REQUESTED |-> FALSE, pc |-> "idle", unserved |-> FALSE, requests |-> 0]

resetOther == <<cache, touches, gets, hist, built, produced, config, call, passes, plan, app, sizes>>

\* web::reset_viewport, called by the page
WebResetViewport ==
    /\ web.requests < MaxRequests
    /\ web' = [web EXCEPT !.RESET_VIEWPORT_REQUESTED = TRUE, !.unserved = TRUE, !.requests = @ + 1]
    /\ UNCHANGED <<view, resetOther>>

\* an event handled between redraws: resumed, the mouse wheel
WebResumed == web.pc = "idle" /\ ViewResumed
WebMouseWheel == web.pc = "idle" /\ ViewMouseWheel

\* RedrawRequested up to the load of the flag; when it reads false, the rest
\* of the handler
WebRedrawLoad ==
    /\ web.pc = "idle"
    /\ view.window
    /\ view.window_width # 0 /\ view.window_height # 0
    /\ IF web.RESET_VIEWPORT_REQUESTED
       THEN /\ web' = [web EXCEPT !.pc = "loaded"]
            /\ view' = view
       ELSE /\ web' = web
            /\ view' = [view_check_debounce_and_recompute(view) EXCEPT
                            !.last = Some([op |-> "redraw", input |-> None, pre |-> ViewBefore])]
    /\ UNCHANGED resetOther

\* RedrawRequested: self.reset_viewport()
WebRedrawReset ==
    /\ web.pc = "loaded"
    /\ web' = [web EXCEPT !.pc = "reset", !.unserved = FALSE]
    /\ view' = [view_reset_viewport(view) EXCEPT
                    !.last = Some([op |-> "reset", input |-> None, pre |-> ViewBefore])]
    /\ UNCHANGED resetOther

\* RedrawRequested: the store of false, and the rest of the handler
WebRedrawStore ==
    /\ web.pc = "reset"
    /\ web' = [web EXCEPT !.pc = "idle", !.RESET_VIEWPORT_REQUESTED = FALSE]
    /\ view' = [view_check_debounce_and_recompute(view) EXCEPT
                    !.last = Some([op |-> "redraw", input |-> None, pre |-> ViewBefore])]
    /\ UNCHANGED resetOther

NextReset ==
    \/ WebResetViewport
    \/ WebResumed
    \/ WebMouseWheel
    \/ WebRedrawLoad
    \/ WebRedrawReset
    \/ WebRedrawStore

SpecReset == InitReset /\ [][NextReset]_vars

\* C35: no request is lost: while a call of the page has not been followed by
\* a reset of the viewport, the flag is set or the handler is about to reset;
\* and with every call followed by a reset and the handler done the flag is
\* false
C35_ResetRequestNeverLost ==
    /\ (web.unserved => web.RESET_VIEWPORT_REQUESTED \/ web.pc = "loaded")
    /\ (~web.unserved /\ web.pc = "idle" => ~web.RESET_VIEWPORT_REQUESTED)

\* the second half of C35 alone
C35_FlagFalseWhenHandled ==
    ~web.unserved /\ web.pc = "idle" => ~web.RESET_VIEWPORT_REQUESTED

(***************************************************************************)
(* SpecViewPass: SpecView with the recomputation pass of a frame drawn     *)
(* after the debounce time.                                                *)
(***************************************************************************)
NextViewPass == NextView \/ ViewRedrawPass

SpecViewPass == InitView /\ [][NextViewPass]_vars

\* C36: once the window exists, needs_recompute = false implies that the
\* bound buffer was computed for the current viewport offsets and with the
\* current cell size
C36_CleanMeansBufferMatches ==
    ~is_none(view) /\ view.window /\ ~view.needs_recompute =>
        /\ view.buffer_viewport = view.viewport
        /\ view.buffer_cell_size = Some(view.current_cell_size)

\* C36 on the desktop build
C36_CleanMeansBufferMatchesNative ==
    ~is_none(view) /\ ~view.wasm => C36_CleanMeansBufferMatches

(***************************************************************************)
(* The insert of a resident key (checked under Spec).                      *)
(***************************************************************************)
\* C37: an insert of a key that is resident, into a cache of capacity >= 1,
\* full or not, stores the tile, makes the key the most recent one and leaves
\* the set of resident keys as it was
C37_ReinsertKeepsKeySet ==
    [][InsertStep => LET key == InsertedKey IN
            ( /\ Insert(key, InsertedTile)
              /\ cache.max_tiles >= 1
              /\ key \in Resident(cache) )
            => /\ Resident(cache') = Resident(cache)
               /\ Head(cache'.lru_queue) = key
      ]_vars

\* C37 for a cache that is not full
C37_ReinsertKeepsKeySetBelowCapacity ==
    [][InsertStep => LET key == InsertedKey IN
            ( /\ Insert(key, InsertedTile)
              /\ cache.max_tiles >= 1
              /\ key \in Resident(cache)
              /\ Cardinality(Resident(cache)) < cache.max_tiles )
            => /\ Resident(cache') = Resident(cache)
               /\ Head(cache'.lru_queue) = key
      ]_vars

(***************************************************************************)
(* The render uniform (checked under SpecApp).  render calls               *)
(* update_render_params whenever a bind group exists; a call later than    *)
(* the throttle time after the last one writes the RenderParams below.     *)
(***************************************************************************)
\* update_render_params: the RenderParams written to params_buffer
update_render_params(a) ==
    [visible_width |-> (a.window_width + a.current_cell_size - 1) \div a.current_cell_size,
     visible_height |-> (a.window_height + a.current_cell_size - 1) \div a.current_cell_size,
     simulated_width |-> a.buffer_simulated_width,
     padding_left |-> a.buffer_padding_left,
     cell_size |-> a.current_cell_size,
     window_width |-> a.window_width,
     window_height |-> a.window_height,
     viewport_offset_x |-> a.viewport.offset_x,
     viewport_offset_y |-> a.viewport.offset_y,
     buffer_offset_x |-> a.buffer_viewport.offset_x,
     buffer_offset_y |-> a.buffer_viewport.offset_y]

\* the CaResult metadata of the buffer that is bound
BoundResult(a) ==
    CaResult_of(unwrap(a.ca_buffer).start_generation, unwrap(a.ca_buffer).iterations,
                unwrap(a.ca_buffer).visible_width)

\* a frame was rendered from a bound buffer in this step
RenderedBound == app.rendered /\ ~is_none(app.bind_group)

\* C38: at every render the uniform's visible_width and visible_height are
\* at most the visible width and the height of the bound buffer, and its
\* simulated_width and padding_left are those of that buffer
C38_UniformWithinBoundBuffer ==
    RenderedBound =>
        LET p == update_render_params(app)
            r == BoundResult(app)
        IN  /\ p.visible_width <= r.visible_width
            /\ p.visible_height <= r.height
            /\ p.simulated_width = r.simulated_width
            /\ p.padding_left = r.padding_left

\* the second half of C38: simulated_width and padding_left of the uniform
\* are those of the bound buffer; and the first half for a render with
\* nothing to recompute
C38_UniformMetadataOfBoundBuffer ==
    RenderedBound =>
        LET p == update_render_params(app)
            r == BoundResult(app)
        IN  /\ p.simulated_width = r.simulated_width
            /\ p.padding_left = r.padding_left
            /\ (~app.needs_recompute =>
                    p.visible_width <= r.visible_width /\ p.visible_height <= r.height)

(***************************************************************************)
(* SpecWheel: wheel events with a vertical delta of 0 among the others (a  *)
(* scroll that is purely horizontal: LineDelta(x, 0.0), PixelDelta with    *)
(* y = 0).                                                                 *)
(***************************************************************************)
\* window_event, MouseWheel with delta_y = 0
ViewMouseWheelFlat ==
    /\ ViewActive
    /\ ViewStep("wheel", 0, view_mouse_wheel(view, 0))

NextWheel ==
    \/ ViewResumed
    \/ ViewCursorMoved
    \/ ViewMouseWheel
    \/ ViewMouseWheelFlat
    \/ ViewRedrawPass

SpecWheel == InitView /\ [][NextWheel]_vars

\* C39: a wheel event with a vertical delta of exactly 0 leaves the cell
\* size, the viewport offsets and needs_recompute as they were
C39_ZeroDeltaChangesNothing ==
    LastOp = "wheel" /\ LastInput = 0 =>
        /\ view.current_cell_size = Pre.current_cell_size
        /\ view.viewport = Pre.viewport
        /\ view.needs_recompute = Pre.needs_recompute

(***************************************************************************)
(* SpecTouch: up to three fingers on the screen.  handle_touch tracks two  *)
(* of them (touch1, touch2); a finger that goes down while both are set is *)
(* ignored by Started and is on the screen without being tracked.          *)
(***************************************************************************)
MaxTouchInputs == 6
FingerIds == TouchIds \cup {3}
FingerPoints == TouchPoints \cup {<<700, 800>>}

InitTouch ==
    /\ cache = None
    /\ touches = None
    /\ gets = 0
    /\ hist = None
    /\ built = None
    /\ produced = None
    /\ config = None
    /\ call = None
    /\ passes = 0
    /\ web = None
    /\ plan = None
    /\ app = None
    /\ sizes = None
    /\ \E wasm \in BOOLEAN :
           view = [RenderView_new(wasm, None) EXCEPT !.fingers = [id \in FingerIds |-> None]]

TouchActive == view.window /\ view.inputs < MaxTouchInputs

\* the positions none of the fingers is on
FreeFingerPoints ==
    FingerPoints \ {unwrap(view.fingers[id]) : id \in {i \in FingerIds : ~is_none(view.fingers[i])}}

\* WindowEvent::Touch, TouchPhase::Started
FingerStarted ==
    /\ TouchActive
    /\ \E id \in FingerIds : \E p \in FreeFingerPoints :
           /\ is_none(view.fingers[id])
           /\ \A j \in FingerIds : j < id => ~is_none(view.fingers[j])
           /\ ViewStep("touch_started", <<id, p>>,
                       [view_touch_started(view, id, p[1], p[2]) EXCEPT !.fingers[id] = Some(p)])

\* WindowEvent::Touch, TouchPhase::Moved
FingerMoved ==
    /\ TouchActive
    /\ \E id \in FingerIds : \E p \in FreeFingerPoints :
           /\ ~is_none(view.fingers[id])
           /\ ViewStep("touch_moved", <<id, p>>,
                       [view_touch_moved(view, id, p[1], p[2]) EXCEPT !.fingers[id] = Some(p)])

\* WindowEvent::Touch, TouchPhase::Ended or Cancelled
FingerEnded ==
    /\ TouchActive
    /\ \E id \in FingerIds :
           /\ ~is_none(view.fingers[id])
           /\ ViewStep("touch_ended", <<id, unwrap(view.fingers[id])>>,
                       [view_touch_ended(view, id) EXCEPT !.fingers[id] = None])

NextTouch ==
    \/ ViewResumed
    \/ FingerStarted
    \/ FingerMoved
    \/ FingerEnded

SpecTouch == InitTouch /\ [][NextTouch]_vars

\* the touch id is the id of touch1 or of touch2
Tracked(s, id) ==
    \/ ~is_none(s.touch1) /\ unwrap(s.touch1)[1] = id
    \/ ~is_none(s.touch2) /\ unwrap(s.touch2)[1] = id

\* the last event was Ended or Cancelled for a touch id that was not tracked
UntrackedEnded == LastOp = "touch_ended" /\ ~Tracked(Pre.touch_state, LastInput[1])

\* C40: an Ended or Cancelled event for a touch id that is neither touch1 nor
\* touch2 leaves touch_state, drag_state and the viewport as they were
C40_UntrackedEndChangesNothing ==
    UntrackedEnded =>
        /\ view.touch_state = Pre.touch_state
        /\ view.drag_state = Pre.drag_state
        /\ view.viewport = Pre.viewport

\* the part of it that holds: the tracked touches, the pinch state and the
\* viewport are as they were, and two tracked touches leave drag_state alone
C40_UntrackedEndKeepsTouchesAndViewport ==
    UntrackedEnded =>
        /\ view.touch_state.touch1 = Pre.touch_state.touch1
        /\ view.touch_state.touch2 = Pre.touch_state.touch2
        /\ view.touch_state.initial_distance = Pre.touch_state.initial_distance
        /\ view.viewport = Pre.viewport
        /\ (~is_none(Pre.touch_state.touch2) => view.drag_state = Pre.drag_state)

=============================================================================
